---- MODULE Spec2Model ----
(***************************************************************************)
(* Occupation -> program association builder (two-stage vector matching,   *)
(* data_pipeline/processor/build_occupation_associations.py) and the       *)
(* query-time program search (src/services/program_search.py).             *)
(*                                                                         *)
(* Embeddings are 2-dimensional integer vectors.  Similarity scores are    *)
(* cosine similarities in hundredths, truncated: 0.25 is 25, 1.0 is 100.   *)
(* Occupations, pathways and programs are identified by their 1-based      *)
(* position in the list the code loads them into.                          *)
(***************************************************************************)
EXTENDS Integers, Sequences, FiniteSets, TLC

VARIABLES
    pc,                     \* position of the running function / of main()
    occupation_embeddings,  \* stage1_embed_occupations: one vector per occupation
    pathway_embeddings,     \* stage1_embed_pathways: one vector per pathway
    argsort_ties,           \* how this build's np.argsort orders equal scores
    top_k,                  \* top_k of stage1_map_occupations_to_pathways
    pathway_threshold,      \* --pathway-threshold
    chunks,                 \* rows of vector_chunks, in the order the query returns them
    program_to_pathway,     \* programs.pathway_id, by program id
    program_threshold,      \* --program-threshold
    max_programs,           \* --max-programs
    occ_to_pathways,        \* result of Stage 1
    occ_to_programs,        \* result of Stage 2
    dry_run,                \* --dry-run
    runs,                   \* number of pipeline runs started so far
    table,                  \* committed rows of program_occupation_association
    tx,                     \* the open session's view of the table (<<rows>>), or NoTx
    total_associations,     \* value returned by stage3_populate_association_table
    exit_code,              \* exit status of the last run, or None
    table_pre,              \* history: the committed table when the current run started
    failed_in,              \* history: stage whose exception ended the current run, or None
    prev_live_ok,           \* history: the previous run was live and ended with exit code 0
    query_embedding,        \* _embed_query_local(query)
    search_top_k,           \* ProgramSearchRequest.top_k
    ranked,                 \* result of search_programs
    results,                \* result of hydrate_programs
    prev_occ_to_programs,   \* history: <<the Stage 2 result of the previous run>>, or NoPrev
    vector_chunks,          \* embed_programs: committed rows of vector_chunks
    embed_session,          \* embed_programs: <<rows added to the open session>>, or NoTx
    program_descriptions,   \* embed_programs: which programs have a description
    batch_size,             \* embed_programs: --batch-size
    use_local,              \* embed_programs: --local
    voyage_api_key,         \* embed_programs: VOYAGE_API_KEY is set
    backend_available,      \* embed_programs: the embedding backend can be used in this run
    batch_start,            \* embed_programs: i of "for i in range(0, len(all_texts), batch_size)"
    model_loads,            \* embed_programs: SentenceTransformer(...) constructions in this process
    stats,                  \* embed_programs: chunks_created, programs_processed, errors
    vector_chunks_pre,      \* history: the committed vector_chunks when the current run started
    pc2,                    \* position of a second, concurrent run of main()
    tx2,                    \* the second run's session: <<its view after its own delete>>, or NoTx
    reader,                 \* <<the last result of get_programs_for_occupation>>, or NoRead
    programs_table,         \* ids of the rows of programs
    occupation_table,       \* onet_codes of the rows of occupation
    last_op,                \* history: the last statement on these tables and its outcome
    sim_A,                  \* rows of the first argument of a similarity computation
    sim_B,                  \* rows of the second argument
    similarity,             \* <<the function called, its result>>, or NoSim
    interest_matched_jobs,  \* rows (occ_code, riasec code) of riasec.interest_matched_jobs
    onet_occupation_data,   \* onetsoc_codes of the rows of onet.occupation_data
    occupation_infos,       \* <<the occ_codes stage1_embed_occupations returned>>, or NoInfos
    populate_result,        \* <<dry_run, the value populate_occupations returned>>, or NoResult
    scope,                  \* one use of session_scope(): position, close() calls, history
    data,                   \* ingestion: the sectors loaded from the JSON file
    ingest_db,              \* ingestion: committed rows of sectors, pathways, programs, institutions
    ingest_db_pre,          \* history: ingest_db when the current or last ingest_all started
    ingest,                 \* ingest_all: position, arguments, total_stats, history
    assess_db,              \* assessment: the tables or the skill definitions the service reads
    assess_in,              \* assessment: the request payload
    assess_out              \* assessment: <<the outcome of the service call>>, or NoOutcome

inputVars == <<occupation_embeddings, pathway_embeddings, argsort_ties, top_k,
               pathway_threshold, chunks, program_to_pathway, program_threshold,
               max_programs>>
matchVars == <<occ_to_pathways, occ_to_programs>>
dbVars == <<dry_run, runs, table, tx, total_associations, exit_code, table_pre,
            failed_in, prev_live_ok>>
searchVars == <<query_embedding, search_top_k, ranked, results>>
rerunVars == <<prev_occ_to_programs>>
embedVars == <<vector_chunks, embed_session, program_descriptions, batch_size, use_local,
               voyage_api_key, backend_available, batch_start, model_loads, stats,
               vector_chunks_pre>>
concVars == <<pc2, tx2, reader>>
cascadeVars == <<programs_table, occupation_table, last_op>>
simVars == <<sim_A, sim_B, similarity>>
popVars == <<interest_matched_jobs, onet_occupation_data, occupation_infos, populate_result>>
scopeVars == <<scope>>
ingestVars == <<data, ingest_db, ingest_db_pre, ingest>>
assessVars == <<assess_db, assess_in, assess_out>>
auxVars == <<cascadeVars, simVars, popVars, scopeVars, ingestVars, assessVars>>
extVars == <<rerunVars, embedVars, concVars, auxVars>>
vars == <<pc, inputVars, matchVars, dbVars, searchVars, extVars>>

None == "None"
\* no session is open
NoTx == <<>>
EmptyDict == <<>>
\* no earlier run to compare with
NoPrev == <<>>
\* get_programs_for_occupation has not been called
NoRead == <<>>

(***************************************************************************)
(* Bounds of the model.                                                    *)
(***************************************************************************)
NumPathways == 3
MaxTopK == 2
NumChunks == 2
MaxProgramsPerOcc == 2
MaxRuns == 2
NumSearchChunks == 3
MaxSearchTopK == 2
MaxBatchSize == 2
MaxEmbedRuns == 2
MaxIngestRuns == 2
MaxMatchedJobs == 16
MaxRatings == 3

OccupationIds == {1, 2}
ProgramIds == {1, 2}
Stage2PathwayIds == {1, 2}

\* defaults of main(): top_k=5, --pathway-threshold 0.25, --program-threshold 0.30,
\* --max-programs 20
TOP_K_PATHWAYS == 5
PATHWAY_THRESHOLD_DEFAULT == 25
PROGRAM_THRESHOLD_DEFAULT == 30
MAX_PROGRAMS_DEFAULT == 20

\* search_programs: text[:160]
PREVIEW_CHARS == 160

\* embed_programs: --batch-size default;
\* length of the vectors: embed_texts_local(pad_to=1024) and _embed_query_local(pad_to=1024)
\* pad to 1024, Voyage's voyage-2 returns 1024, all-MiniLM-L6-v2 returns 384
BATCH_SIZE_DEFAULT == 10
PAD_TO == 1024
VOYAGE_2_DIMS == 1024
MINILM_L6_V2_DIMS == 384

Embeddings == {<<1, 0>>, <<0, 1>>, <<3, 4>>}
PathwayThresholds == {0, PATHWAY_THRESHOLD_DEFAULT}
\* values given to --program-threshold
ProgramThresholds == {0, PROGRAM_THRESHOLD_DEFAULT, 70}

(***************************************************************************)
(* Similarity engine.                                                      *)
(***************************************************************************)
Dot(a, b) == a[1] * b[1] + a[2] * b[2]

\* floor(sqrt(n)) for 0 <= n <= 10000: the tens digit, then the units digit
ISqrt(n) ==
    LET t == CHOOSE x \in 0..10 : 100 * x * x <= n /\ 100 * (x + 1) * (x + 1) > n
    IN  IF t = 10 THEN 100
        ELSE CHOOSE r \in (10 * t)..(10 * t + 9) : r * r <= n /\ (r + 1) * (r + 1) > n

\* (a.b) / ((|a| + 1e-8) * (|b| + 1e-8)) in hundredths; the epsilon is below the
\* model's resolution and only decides the zero vector, whose similarity is 0.
cosine(a, b) ==
    LET d == Dot(a, b)
        den == Dot(a, a) * Dot(b, b)
    IN  IF den = 0 THEN 0
        ELSE IF d >= 0 THEN ISqrt((10000 * d * d) \div den)
        ELSE 0 - ISqrt((10000 * d * d) \div den)

CosTable == [a \in Embeddings, b \in Embeddings |-> cosine(a, b)]

cosine_similarity_matrix(A, B) ==
    [i \in 1..Len(A) |-> [j \in 1..Len(B) |-> CosTable[A[i], B[j]]]]

(***************************************************************************)
(* Python and NumPy list operations.                                       *)
(***************************************************************************)
Min(a, b) == IF a <= b THEN a ELSE b
Max(a, b) == IF a >= b THEN a ELSE b

\* s[::-1]
Reverse(s) == [k \in 1..Len(s) |-> s[Len(s) + 1 - k]]

\* s[:k]; a negative k drops the last -k elements
SliceTo(s, k) ==
    IF k >= 0 THEN SubSeq(s, 1, Min(k, Len(s)))
    ELSE SubSeq(s, 1, Max(0, Len(s) + k))

\* The priorities np.argsort (kind='quicksort', not stable) may give to equal
\* keys: one fixed order of the positions per build.
TieOrders(n) == {f \in [1..n -> 1..n] : \A i, j \in 1..n : i # j => f[i] # f[j]}

\* np.argsort(scores): the positions in ascending score order
argsort(scores, ties) ==
    LET n == Len(scores)
        Before(j, i) == \/ scores[j] < scores[i]
                        \/ scores[j] = scores[i] /\ ties[j] < ties[i]
        Ins(s, x) ==
            LET p == Cardinality({k \in 1..Len(s) : Before(s[k], x)})
            IN  SubSeq(s, 1, p) \o <<x>> \o SubSeq(s, p + 1, Len(s))
        F[m \in 0..n] == IF m = 0 THEN <<>> ELSE Ins(F[m - 1], m)
    IN  F[n]

(***************************************************************************)
(* Stage 1: occupations -> pathways.                                       *)
(***************************************************************************)
\* np.argsort(scores)[::-1][:top_k]
top_indices_ascending(scores, k, ties) == SliceTo(argsort(scores, ties), k)

top_indices(scores, k, ties) == SliceTo(Reverse(argsort(scores, ties)), k)

\* the loop body: the (pathway_id, score) pairs kept for one occupation
pathway_matches(scores, k, thr, ties) ==
    LET top == top_indices(scores, k, ties)
        F[n \in 0..Len(top)] ==
            IF n = 0 THEN <<>>
            ELSE IF scores[top[n]] >= thr
                 THEN Append(F[n - 1], <<top[n], scores[top[n]]>>)
                 ELSE F[n - 1]
    IN  F[Len(top)]

stage1_map_occupations_to_pathways(occ_emb, pw_emb, k, thr, ties) ==
    LET sim_matrix == cosine_similarity_matrix(occ_emb, pw_emb)
        matches(i) == pathway_matches(sim_matrix[i], k, thr, ties)
        kept == {i \in 1..Len(occ_emb) : matches(i) # <<>>}
    IN  [i \in kept |-> matches(i)]

(***************************************************************************)
(* Stage 2: occupations -> programs within the matched pathways.           *)
(***************************************************************************)
chunk_source_ids(chs) == [n \in 1..Len(chs) |-> chs[n].chunk_source_id]

\* keys of {chunk[0]: chunk[1] for chunk in chunks}, in insertion order
program_ids(chs) ==
    LET F[n \in 0..Len(chs)] ==
            IF n = 0 THEN <<>>
            ELSE IF \E j \in 1..(n - 1) : chs[j].chunk_source_id = chs[n].chunk_source_id
                 THEN F[n - 1]
                 ELSE Append(F[n - 1], chs[n].chunk_source_id)
    IN  F[Len(chs)]

\* values of that dict: a later chunk of the same program overwrites an earlier one
program_id_to_embedding(chs, g) ==
    LET last == CHOOSE j \in 1..Len(chs) :
                    /\ chs[j].chunk_source_id = g
                    /\ \A k \in (j + 1)..Len(chs) : chs[k].chunk_source_id # g
    IN  chs[last].chunk_embedding

\* [pw_id for pw_id, _ in occ_to_pathways[occ_code]]
matched_pathways(o2pw, i) == {o2pw[i][n][1] : n \in 1..Len(o2pw[i])}

candidate_programs_unfiltered(chs, p2pw, matched) == program_ids(chs)

candidate_programs(chs, p2pw, matched) ==
    SelectSeq(program_ids(chs), LAMBDA g : p2pw[g] \in matched)

\* the per-pair cosine similarity, kept when it reaches the threshold
program_scores(occ_vec, cands, chs, thr) ==
    LET score(g) == CosTable[occ_vec, program_id_to_embedding(chs, g)]
        F[n \in 0..Len(cands)] ==
            IF n = 0 THEN <<>>
            ELSE IF score(cands[n]) >= thr
                 THEN Append(F[n - 1], <<cands[n], score(cands[n])>>)
                 ELSE F[n - 1]
    IN  F[Len(cands)]

sort_by_score_asc(s) ==
    LET Ins(t, x) ==
            LET p == Cardinality({k \in 1..Len(t) : t[k][2] <= x[2]})
            IN  SubSeq(t, 1, p) \o <<x>> \o SubSeq(t, p + 1, Len(t))
        F[m \in 0..Len(s)] == IF m = 0 THEN <<>> ELSE Ins(F[m - 1], s[m])
    IN  F[Len(s)]

\* scores.sort(key=lambda x: x[1], reverse=True): stable, equal scores keep their order
sort_by_score_desc(s) ==
    LET Ins(t, x) ==
            LET p == Cardinality({k \in 1..Len(t) : t[k][2] >= x[2]})
            IN  SubSeq(t, 1, p) \o <<x>> \o SubSeq(t, p + 1, Len(t))
        F[m \in 0..Len(s)] == IF m = 0 THEN <<>> ELSE Ins(F[m - 1], s[m])
    IN  F[Len(s)]

program_matches_uncut(occ_vec, cands, chs, thr, cap) ==
    sort_by_score_desc(program_scores(occ_vec, cands, chs, thr))

program_matches(occ_vec, cands, chs, thr, cap) ==
    SliceTo(sort_by_score_desc(program_scores(occ_vec, cands, chs, thr)), cap)

stage2_map_occupations_to_programs(occ_emb, o2pw, chs, p2pw, thr, cap) ==
    LET cands(i) == candidate_programs(chs, p2pw, matched_pathways(o2pw, i))
        matches(i) == program_matches(occ_emb[i], cands(i), chs, thr, cap)
        kept == {i \in (1..Len(occ_emb)) \cap DOMAIN o2pw : matches(i) # <<>>}
    IN  [i \in kept |-> matches(i)]

(***************************************************************************)
(* The specification of Stage 1 as a function of its arguments.            *)
(***************************************************************************)
IdleDb ==
    /\ dry_run = FALSE /\ runs = 0 /\ table = {} /\ tx = NoTx
    /\ total_associations = None /\ exit_code = None /\ table_pre = {}
    /\ failed_in = None /\ prev_live_ok = FALSE

IdleSearch ==
    /\ query_embedding = <<1, 0>> /\ search_top_k = 0
    /\ ranked = <<>> /\ results = <<>>

IdleRerun == prev_occ_to_programs = NoPrev

NoStats == [chunks_created |-> 0, programs_processed |-> 0, errors |-> 0]

IdleEmbed ==
    /\ vector_chunks = {} /\ embed_session = NoTx
    /\ program_descriptions = <<>> /\ batch_size = BATCH_SIZE_DEFAULT
    /\ use_local = FALSE /\ voyage_api_key = FALSE /\ backend_available = FALSE
    /\ batch_start = 0 /\ model_loads = 0 /\ stats = NoStats
    /\ vector_chunks_pre = {}

IdleConc == pc2 = "idle" /\ tx2 = NoTx /\ reader = NoRead

NoOp == <<>>

IdleCascade == programs_table = {} /\ occupation_table = {} /\ last_op = NoOp

NoSim == <<>>

IdleSim == sim_A = <<>> /\ sim_B = <<>> /\ similarity = NoSim

NoInfos == <<>>
NoResult == <<>>

IdlePop ==
    /\ interest_matched_jobs = {} /\ onet_occupation_data = {}
    /\ occupation_infos = NoInfos /\ populate_result = NoResult

\* no session_scope() has been entered
NoScope ==
    [pc |-> "outside", via |-> None, closes |-> 0, block |-> None, view_at_end |-> {},
     committed_at_end |-> {}, propagated |-> None]

IdleScope == scope = NoScope

EmptyDb == [sectors |-> {}, pathways |-> {}, programs |-> {}, institutions |-> {}]

NoStatsYet == <<>>
NoPreview == <<>>

\* no ingest_all has been started
NoIngest ==
    [pc |-> "idle", dry_run |-> FALSE, skip_sectors |-> FALSE, skip_programs |-> FALSE,
     runs |-> 0, total_stats |-> NoStatsYet, raised |-> FALSE, fresh |-> FALSE,
     preview |-> NoPreview, preview_used |-> NoPreview, prev_live_total |-> NoStatsYet,
     last_live_total |-> NoStatsYet, live_full_runs |-> 0]

IdleIngest ==
    /\ data = <<>> /\ ingest_db = EmptyDb /\ ingest_db_pre = EmptyDb /\ ingest = NoIngest

NoOutcome == <<>>

IdleAssess == assess_db = <<>> /\ assess_in = <<>> /\ assess_out = NoOutcome

IdleAux == IdleCascade /\ IdleSim /\ IdlePop /\ IdleScope /\ IdleIngest /\ IdleAssess

IdleExt == IdleRerun /\ IdleEmbed /\ IdleConc /\ IdleAux

InitStage1 ==
    /\ pc = "stage1"
    /\ occupation_embeddings \in [OccupationIds -> Embeddings]
    /\ pathway_embeddings \in [1..NumPathways -> Embeddings]
    /\ argsort_ties \in TieOrders(NumPathways)
    /\ top_k \in 1..MaxTopK
    /\ pathway_threshold \in PathwayThresholds
    /\ chunks = <<>> /\ program_to_pathway = <<>>
    /\ program_threshold = PROGRAM_THRESHOLD_DEFAULT
    /\ max_programs = MAX_PROGRAMS_DEFAULT
    /\ occ_to_pathways = EmptyDict /\ occ_to_programs = EmptyDict
    /\ IdleDb /\ IdleSearch /\ IdleExt

CallStage1 ==
    /\ pc = "stage1"
    /\ occ_to_pathways' = stage1_map_occupations_to_pathways(
            occupation_embeddings, pathway_embeddings, top_k,
            pathway_threshold, argsort_ties)
    /\ pc' = "stage1_returned"
    /\ UNCHANGED <<inputVars, occ_to_programs, dbVars, searchVars, extVars>>

NextStage1 == CallStage1

SpecStage1 == InitStage1 /\ [][NextStage1]_vars

(***************************************************************************)
(* The specification of Stage 2 as a function of its arguments; its        *)
(* occ_to_pathways is what Stage 1 of main() returns.                      *)
(***************************************************************************)
ChunkRows == [chunk_source_id : ProgramIds, chunk_embedding : Embeddings, chunk_text : {<<>>}]

IdentityTies(n) == [i \in 1..n |-> i]

InitStage2 ==
    /\ pc = "stage2"
    /\ occupation_embeddings \in [OccupationIds -> Embeddings]
    /\ pathway_embeddings \in [Stage2PathwayIds -> Embeddings]
    /\ argsort_ties = IdentityTies(Len(pathway_embeddings))
    /\ top_k = TOP_K_PATHWAYS
    /\ pathway_threshold = PATHWAY_THRESHOLD_DEFAULT
    /\ chunks \in [1..NumChunks -> ChunkRows]
    /\ program_to_pathway \in [ProgramIds -> Stage2PathwayIds]
    /\ program_threshold = PROGRAM_THRESHOLD_DEFAULT
    /\ max_programs \in 1..MaxProgramsPerOcc
    /\ occ_to_pathways = stage1_map_occupations_to_pathways(
            occupation_embeddings, pathway_embeddings, top_k,
            pathway_threshold, argsort_ties)
    /\ occ_to_programs = EmptyDict
    /\ IdleDb /\ IdleSearch /\ IdleExt

CallStage2 ==
    /\ pc = "stage2"
    /\ occ_to_programs' = stage2_map_occupations_to_programs(
            occupation_embeddings, occ_to_pathways, chunks, program_to_pathway,
            program_threshold, max_programs)
    /\ pc' = "stage2_returned"
    /\ UNCHANGED <<inputVars, occ_to_pathways, dbVars, searchVars, extVars>>

NextStage2 == CallStage2

SpecStage2 == InitStage2 /\ [][NextStage2]_vars

(***************************************************************************)
(* Stage 2 run again on the same data with a lower --program-threshold.    *)
(***************************************************************************)
InitThreshold ==
    /\ pc = "stage2"
    /\ occupation_embeddings \in [OccupationIds -> Embeddings]
    /\ pathway_embeddings = <<(<<1, 0>>), (<<0, 1>>)>>
    /\ argsort_ties = IdentityTies(Len(pathway_embeddings))
    /\ top_k = TOP_K_PATHWAYS
    /\ pathway_threshold = PATHWAY_THRESHOLD_DEFAULT
    /\ chunks \in [1..NumChunks -> ChunkRows]
    /\ program_to_pathway \in [ProgramIds -> Stage2PathwayIds]
    /\ program_threshold \in ProgramThresholds
    /\ max_programs \in 1..MaxProgramsPerOcc
    /\ occ_to_pathways = stage1_map_occupations_to_pathways(
            occupation_embeddings, pathway_embeddings, top_k,
            pathway_threshold, argsort_ties)
    /\ occ_to_programs = EmptyDict
    /\ IdleDb /\ IdleSearch /\ IdleExt

\* main() is started again with a lower --program-threshold, everything else as before
LowerProgramThreshold ==
    /\ pc = "stage2_returned"
    /\ \E t \in ProgramThresholds :
            /\ t < program_threshold
            /\ program_threshold' = t
    /\ prev_occ_to_programs' = <<occ_to_programs>>
    /\ occ_to_programs' = EmptyDict
    /\ pc' = "stage2"
    /\ UNCHANGED <<occupation_embeddings, pathway_embeddings, argsort_ties, top_k,
                   pathway_threshold, chunks, program_to_pathway, max_programs,
                   occ_to_pathways, dbVars, searchVars, embedVars, concVars, auxVars>>

NextThreshold == CallStage2 \/ LowerProgramThreshold

SpecThreshold == InitThreshold /\ [][NextThreshold]_vars

(***************************************************************************)
(* Stage 3 and main(): the run inside session_scope().                     *)
(***************************************************************************)
\* the rows of the batch insert: one (program_id, occupation_onet_code) per match
associations(o2pr) ==
    UNION {{<<o2pr[i][n][1], i>> : n \in 1..Len(o2pr[i])} : i \in DOMAIN o2pr}

\* the list associations: for each occupation of the dict, in insertion order, one
\* (program_id, occupation_onet_code) per entry of its list
association_rows(o2pr) ==
    LET last == Len(occupation_embeddings)
        rows(i) == [n \in 1..Len(o2pr[i]) |-> <<o2pr[i][n][1], i>>]
        F[n \in 0..last] ==
            IF n = 0 THEN <<>>
            ELSE IF n \in DOMAIN o2pr THEN F[n - 1] \o rows(n) ELSE F[n - 1]
    IN  F[last]

\* the composite primary key (program_id, occupation_onet_code) admits the rows
primary_key_ok(rows) == \A m, n \in 1..Len(rows) : rows[m] = rows[n] => m = n

num_associations_counts_occupations(o2pr) == Cardinality(DOMAIN o2pr)

\* len(associations)
num_associations(o2pr) ==
    LET last == Len(occupation_embeddings)
        S[n \in 0..last] ==
            IF n = 0 THEN 0
            ELSE S[n - 1] + (IF n \in DOMAIN o2pr THEN Len(o2pr[n]) ELSE 0)
    IN  S[last]

AllPairs == ProgramIds \X OccupationIds

Init ==
    /\ pc = "idle"
    /\ occupation_embeddings \in [OccupationIds -> Embeddings]
    /\ pathway_embeddings = <<(<<1, 0>>), (<<0, 1>>)>>
    /\ argsort_ties = IdentityTies(Len(pathway_embeddings))
    /\ top_k = TOP_K_PATHWAYS
    /\ pathway_threshold = PATHWAY_THRESHOLD_DEFAULT
    /\ \E e \in [ProgramIds -> Embeddings] :
            chunks = [g \in ProgramIds |->
                        [chunk_source_id |-> g, chunk_embedding |-> e[g], chunk_text |-> <<>>]]
    /\ program_to_pathway = [g \in ProgramIds |-> g]
    /\ program_threshold = PROGRAM_THRESHOLD_DEFAULT
    /\ max_programs \in {1, MAX_PROGRAMS_DEFAULT}
    /\ occ_to_pathways = EmptyDict /\ occ_to_programs = EmptyDict
    /\ dry_run = FALSE /\ runs = 0
    /\ table \in SUBSET AllPairs
    /\ tx = NoTx
    /\ total_associations = None /\ exit_code = None
    /\ table_pre = table
    /\ failed_in = None /\ prev_live_ok = FALSE
    /\ IdleSearch /\ IdleExt

\* main() is started with or without --dry-run; session_scope() opens the session
StartRun ==
    /\ pc = "idle"
    /\ runs < MaxRuns
    /\ dry_run' \in BOOLEAN
    /\ runs' = runs + 1
    /\ prev_live_ok' = (runs > 0 /\ ~dry_run /\ exit_code = 0)
    /\ table_pre' = table
    /\ tx' = <<table>>
    /\ occ_to_pathways' = EmptyDict /\ occ_to_programs' = EmptyDict
    /\ total_associations' = None /\ exit_code' = None /\ failed_in' = None
    /\ pc' = "stage1"
    /\ UNCHANGED <<inputVars, table, searchVars, extVars>>

Stage1 ==
    /\ pc = "stage1"
    /\ occ_to_pathways' = stage1_map_occupations_to_pathways(
            occupation_embeddings, pathway_embeddings, top_k,
            pathway_threshold, argsort_ties)
    /\ pc' = "stage2"
    /\ UNCHANGED <<inputVars, occ_to_programs, dbVars, searchVars, extVars>>

Stage1Fails_Swallowed ==
    /\ pc = "stage1"
    /\ failed_in' = "stage1"
    /\ pc' = "stage2"
    /\ UNCHANGED <<inputVars, matchVars, dry_run, runs, table, tx, total_associations,
                   exit_code, table_pre, prev_live_ok, searchVars, extVars>>

\* get_local_model() or a query raises inside Stage 1
Stage1Fails ==
    /\ pc = "stage1"
    /\ failed_in' = "stage1"
    /\ pc' = "except"
    /\ UNCHANGED <<inputVars, matchVars, dry_run, runs, table, tx, total_associations,
                   exit_code, table_pre, prev_live_ok, searchVars, extVars>>

Stage2 ==
    /\ pc = "stage2"
    /\ occ_to_programs' = stage2_map_occupations_to_programs(
            occupation_embeddings, occ_to_pathways, chunks, program_to_pathway,
            program_threshold, max_programs)
    /\ pc' = "stage3"
    /\ UNCHANGED <<inputVars, occ_to_pathways, dbVars, searchVars, extVars>>

Stage2Fails ==
    /\ pc = "stage2"
    /\ failed_in' = "stage2"
    /\ pc' = "except"
    /\ UNCHANGED <<inputVars, matchVars, dry_run, runs, table, tx, total_associations,
                   exit_code, table_pre, prev_live_ok, searchVars, extVars>>

Stage3Clear_NoDelete ==
    /\ pc = "stage3"
    /\ tx' = tx
    /\ pc' = "stage3_insert"
    /\ UNCHANGED <<inputVars, matchVars, dry_run, runs, table, total_associations,
                   exit_code, table_pre, failed_in, prev_live_ok, searchVars, extVars>>

Stage3Clear_IgnoresDryRun ==
    /\ pc = "stage3"
    /\ tx' = <<{}>>
    /\ pc' = "stage3_insert"
    /\ UNCHANGED <<inputVars, matchVars, dry_run, runs, table, total_associations,
                   exit_code, table_pre, failed_in, prev_live_ok, searchVars, extVars>>

Stage3Clear_Autocommit ==
    /\ pc = "stage3"
    /\ tx' = IF ~dry_run THEN <<{}>> ELSE tx
    /\ table' = IF ~dry_run THEN {} ELSE table
    /\ pc' = "stage3_insert"
    /\ UNCHANGED <<inputVars, matchVars, dry_run, runs, total_associations,
                   exit_code, table_pre, failed_in, prev_live_ok, searchVars, extVars>>

\* stage3: "if not dry_run: db.execute(program_occupation_association.delete())"
Stage3Clear ==
    /\ pc = "stage3"
    /\ tx' = IF ~dry_run THEN <<{}>> ELSE tx
    /\ pc' = "stage3_insert"
    /\ UNCHANGED <<inputVars, matchVars, dry_run, runs, table, total_associations,
                   exit_code, table_pre, failed_in, prev_live_ok, searchVars, extVars>>

Stage3Insert_OnlyNewRows ==
    /\ pc = "stage3_insert"
    /\ tx' = IF ~dry_run THEN <<tx[1] \cup (associations(occ_to_programs) \ table)>> ELSE tx
    /\ table' = IF ~dry_run THEN tx'[1] ELSE table
    /\ total_associations' = num_associations(occ_to_programs)
    /\ pc' = "scope_exit"
    /\ UNCHANGED <<inputVars, matchVars, dry_run, runs, exit_code, table_pre,
                   failed_in, prev_live_ok, searchVars, extVars>>

\* stage3: the batch insert and db.commit() of a live run, and the return
Stage3Insert ==
    /\ pc = "stage3_insert"
    /\ tx' = IF ~dry_run THEN <<tx[1] \cup associations(occ_to_programs)>> ELSE tx
    /\ table' = IF ~dry_run THEN tx'[1] ELSE table
    /\ total_associations' = num_associations(occ_to_programs)
    /\ pc' = "scope_exit"
    /\ UNCHANGED <<inputVars, matchVars, dry_run, runs, exit_code, table_pre,
                   failed_in, prev_live_ok, searchVars, extVars>>

\* the insert raises after some of its rows, or db.commit() raises after all of them
Stage3Fails ==
    /\ pc = "stage3_insert"
    /\ ~dry_run
    /\ \E done \in SUBSET associations(occ_to_programs) : tx' = <<tx[1] \cup done>>
    /\ failed_in' = "stage3"
    /\ pc' = "except"
    /\ UNCHANGED <<inputVars, matchVars, dry_run, runs, table, total_associations,
                   exit_code, table_pre, prev_live_ok, searchVars, extVars>>

\* session_scope after the block: db.commit(), db.close(); main() ends, exit code 0
ScopeExit ==
    /\ pc = "scope_exit"
    /\ table' = tx[1]
    /\ tx' = NoTx
    /\ exit_code' = 0
    /\ pc' = "idle"
    /\ UNCHANGED <<inputVars, matchVars, dry_run, runs, total_associations, table_pre,
                   failed_in, prev_live_ok, searchVars, extVars>>

ScopeExcept_Commits ==
    /\ pc = "except"
    /\ table' = tx[1]
    /\ tx' = NoTx
    /\ exit_code' = 1
    /\ pc' = "idle"
    /\ UNCHANGED <<inputVars, matchVars, dry_run, runs, total_associations,
                   table_pre, failed_in, prev_live_ok, searchVars, extVars>>

\* session_scope on an exception: db.rollback(), raise, db.close(); main(): sys.exit(1)
ScopeExcept ==
    /\ pc = "except"
    /\ tx' = NoTx
    /\ exit_code' = 1
    /\ pc' = "idle"
    /\ UNCHANGED <<inputVars, matchVars, dry_run, runs, table, total_associations,
                   table_pre, failed_in, prev_live_ok, searchVars, extVars>>

Next ==
    \/ StartRun
    \/ Stage1
    \/ Stage1Fails
    \/ Stage2
    \/ Stage2Fails
    \/ Stage3Clear
    \/ Stage3Insert
    \/ Stage3Fails
    \/ ScopeExit
    \/ ScopeExcept

Spec == Init /\ [][Next]_vars

(***************************************************************************)
(* The foreign keys of program_occupation_association: program_id          *)
(* references programs.id and occupation_onet_code references              *)
(* occupation.onet_code, both with ondelete="CASCADE".                     *)
(***************************************************************************)
coreVars == <<pc, inputVars, matchVars, searchVars, rerunVars, embedVars, concVars>>

references_existing(rows, progs, occs) ==
    \A r \in rows : r[1] \in progs /\ r[2] \in occs

InitCascade ==
    /\ pc = "idle"
    /\ occupation_embeddings = [i \in OccupationIds |-> <<1, 0>>]
    /\ pathway_embeddings = <<(<<1, 0>>), (<<0, 1>>)>>
    /\ argsort_ties = IdentityTies(Len(pathway_embeddings))
    /\ top_k = TOP_K_PATHWAYS
    /\ pathway_threshold = PATHWAY_THRESHOLD_DEFAULT
    /\ chunks = <<>>
    /\ program_to_pathway = [g \in ProgramIds |-> g]
    /\ program_threshold = PROGRAM_THRESHOLD_DEFAULT
    /\ max_programs = MAX_PROGRAMS_DEFAULT
    /\ occ_to_pathways = EmptyDict /\ occ_to_programs = EmptyDict
    /\ dry_run = FALSE /\ runs = 0
    /\ programs_table \in SUBSET ProgramIds
    /\ occupation_table \in SUBSET OccupationIds
    /\ table \in SUBSET (programs_table \X occupation_table)
    /\ tx = NoTx
    /\ total_associations = None /\ exit_code = None
    /\ table_pre = table
    /\ failed_in = None /\ prev_live_ok = FALSE
    /\ last_op = NoOp
    /\ IdleSearch /\ IdleRerun /\ IdleEmbed /\ IdleConc /\ IdleSim /\ IdlePop /\ IdleScope
    /\ IdleIngest /\ IdleAssess

notCascadeVars == <<coreVars, dry_run, runs, tx, total_associations, exit_code, table_pre,
                    failed_in, prev_live_ok, simVars, popVars, scopeVars, ingestVars, assessVars>>

\* an insert into the association table: the primary key and both foreign keys
\* are checked, and a row that fails a check is rejected (IntegrityError)
InsertAssociation ==
    \E g \in ProgramIds, i \in OccupationIds :
        /\ IF /\ <<g, i>> \notin table
              /\ g \in programs_table
              /\ i \in occupation_table
           THEN /\ table' = table \cup {<<g, i>>}
                /\ last_op' = <<"insert", <<g, i>>, 1>>
           ELSE /\ table' = table
                /\ last_op' = <<"insert_rejected", <<g, i>>, 0>>
        /\ UNCHANGED <<notCascadeVars, programs_table, occupation_table>>

DeleteProgram_NoCascade ==
    \E g \in programs_table :
        /\ programs_table' = programs_table \ {g}
        /\ table' = table
        /\ last_op' = <<"delete_program", g, 0>>
        /\ UNCHANGED <<notCascadeVars, occupation_table>>

\* DELETE of a programs row: ForeignKey("programs.id", ondelete="CASCADE")
DeleteProgram ==
    \E g \in programs_table :
        /\ programs_table' = programs_table \ {g}
        /\ table' = {r \in table : r[1] # g}
        /\ last_op' = <<"delete_program", g, Cardinality({r \in table : r[1] = g})>>
        /\ UNCHANGED <<notCascadeVars, occupation_table>>

\* DELETE of an occupation row: ForeignKey("occupation.onet_code", ondelete="CASCADE")
DeleteOccupation ==
    \E i \in occupation_table :
        /\ occupation_table' = occupation_table \ {i}
        /\ table' = {r \in table : r[2] # i}
        /\ last_op' = <<"delete_occupation", i, Cardinality({r \in table : r[2] = i})>>
        /\ UNCHANGED <<notCascadeVars, programs_table>>

NextCascade == InsertAssociation \/ DeleteProgram \/ DeleteOccupation

SpecCascade == InitCascade /\ [][NextCascade]_vars

(***************************************************************************)
(* The three similarity computations with their epsilon.  A norm plus      *)
(* 1e-8 is kept as its two terms, the squared norm and the number of       *)
(* epsilons added; it is zero exactly when both terms are.  A floating     *)
(* point division by zero gives nan for 0/0 and inf otherwise.             *)
(***************************************************************************)
ZeroVector == <<0, 0>>
VectorsWithZero == Embeddings \cup {ZeroVector}
\* floating point results: a finite value in hundredths, nan, inf, or no score
Finite(v) == <<"finite", v>>
NaN == <<"nan", 0>>
Inf == <<"inf", 0>>
Skipped == <<"skipped", 0>>

norm_without_epsilon(a) == [sq |-> Dot(a, a), eps |-> 0]

\* np.linalg.norm(a) + 1e-8
norm_plus_epsilon(a) == [sq |-> Dot(a, a), eps |-> 1]

is_zero(n) == n.sq = 0 /\ n.eps = 0

\* x / den for a numerator that is zero (is0) or has the value v in hundredths
divide(is0, v, den_is_zero) ==
    IF den_is_zero THEN (IF is0 THEN NaN ELSE Inf)
    ELSE IF is0 THEN Finite(0) ELSE Finite(v)

\* a row of A / (np.linalg.norm(A, axis=1, keepdims=True) + 1e-8) is nan when its
\* components are 0/0: the norm is zero only for the zero row
normalised_row_is_nan(a) == is_zero(norm_plus_epsilon(a))

\* A_norm @ B_norm.T: a nan row makes every entry of its products nan
cosine_similarity_matrix_eps(A, B) ==
    [i \in 1..Len(A) |->
        [j \in 1..Len(B) |->
            IF normalised_row_is_nan(A[i]) \/ normalised_row_is_nan(B[j]) THEN NaN
            ELSE IF Dot(A[i], B[j]) = 0 THEN Finite(0)
            ELSE Finite(cosine(A[i], B[j]))]]

\* Stage 2: float(np.dot(occ_emb, prog_emb) / (norm_occ * norm_prog))
stage2_pair_score(occ_emb, prog_emb) ==
    LET norm_occ == norm_plus_epsilon(occ_emb)
        norm_prog == norm_plus_epsilon(prog_emb)
        d == Dot(occ_emb, prog_emb)
    IN  divide(d = 0, IF d = 0 THEN 0 ELSE cosine(occ_emb, prog_emb),
               is_zero(norm_occ) \/ is_zero(norm_prog))

\* search_programs: "if denom == 0: continue", else float(np.dot(v, q) / denom)
search_chunk_score(v, q) ==
    LET q_norm == norm_plus_epsilon(q)
        v_norm == norm_plus_epsilon(v)
        d == Dot(v, q)
    IN  IF is_zero(q_norm) \/ is_zero(v_norm) THEN Skipped
        ELSE divide(d = 0, IF d = 0 THEN 0 ELSE cosine(v, q), FALSE)

InitSimilarity ==
    /\ pc = "idle"
    /\ occupation_embeddings = [i \in OccupationIds |-> <<1, 0>>]
    /\ pathway_embeddings = <<(<<1, 0>>), (<<0, 1>>)>>
    /\ argsort_ties = IdentityTies(Len(pathway_embeddings))
    /\ top_k = TOP_K_PATHWAYS
    /\ pathway_threshold = PATHWAY_THRESHOLD_DEFAULT
    /\ chunks = <<>>
    /\ program_to_pathway = [g \in ProgramIds |-> g]
    /\ program_threshold = PROGRAM_THRESHOLD_DEFAULT
    /\ max_programs = MAX_PROGRAMS_DEFAULT
    /\ occ_to_pathways = EmptyDict /\ occ_to_programs = EmptyDict
    /\ sim_A \in [1..2 -> VectorsWithZero]
    /\ sim_B \in [1..2 -> VectorsWithZero]
    /\ similarity = NoSim
    /\ IdleDb /\ IdleSearch /\ IdleRerun /\ IdleEmbed /\ IdleConc /\ IdleCascade /\ IdlePop
    /\ IdleScope /\ IdleIngest /\ IdleAssess

notSimVars == <<coreVars, dbVars, cascadeVars, popVars, scopeVars, ingestVars, assessVars>>

CallCosineSimilarityMatrix ==
    /\ similarity' = <<"cosine_similarity_matrix", cosine_similarity_matrix_eps(sim_A, sim_B)>>
    /\ UNCHANGED <<notSimVars, sim_A, sim_B>>

\* the score loop of Stage 2 for the occupation sim_A[1] and the candidates sim_B
CallStage2Scores ==
    /\ similarity' = <<"stage2", <<[j \in 1..Len(sim_B) |->
                                        stage2_pair_score(sim_A[1], sim_B[j])]>>>>
    /\ UNCHANGED <<notSimVars, sim_A, sim_B>>

\* the score loop of search_programs for the query sim_A[1] and the chunks sim_B
CallSearchScores ==
    /\ similarity' = <<"search_programs", <<[j \in 1..Len(sim_B) |->
                                                search_chunk_score(sim_B[j], sim_A[1])]>>>>
    /\ UNCHANGED <<notSimVars, sim_A, sim_B>>

NextSimilarity == CallCosineSimilarityMatrix \/ CallStage2Scores \/ CallSearchScores

SpecSimilarity == InitSimilarity /\ [][NextSimilarity]_vars

(***************************************************************************)
(* populate_occupations and the occupation list of the association         *)
(* builder, both read from riasec.interest_matched_jobs and                *)
(* onet.occupation_data; the builder's insert is checked against the       *)
(* occupation foreign key of the association table.                        *)
(***************************************************************************)
RiasecCodes == {"RIA", "SEC"}

\* the elements of a set of numbers as a list, ascending
SortedSeq(S) ==
    LET F[T \in SUBSET S] ==
            IF T = {} THEN <<>>
            ELSE LET m == CHOOSE x \in T : \A y \in T : x <= y
                 IN  <<m>> \o F[T \ {m}]
    IN  F[S]

SeqToSet(q) == {q[n] : n \in 1..Len(q)}

\* db.query(InterestMatchedJob.occ_code).distinct().all()
unique_codes(imj) == SortedSeq({r[1] : r \in imj})

embedded_occ_codes_unfiltered(imj, onet) == unique_codes(imj)

\* stage1_embed_occupations: the codes with an onet.occupation_data row, "if not occ: continue"
embedded_occ_codes(imj, onet) ==
    SelectSeq(unique_codes(imj), LAMBDA c : c \in onet)

\* populate_occupations: one record per OnetOccupation whose onet_code is in the codes
occupation_records(imj, onet) == {c \in onet : c \in SeqToSet(unique_codes(imj))}

InitPopulate ==
    /\ pc = "idle"
    /\ occupation_embeddings = [i \in OccupationIds |-> <<1, 0>>]
    /\ pathway_embeddings = <<(<<1, 0>>), (<<0, 1>>)>>
    /\ argsort_ties = IdentityTies(Len(pathway_embeddings))
    /\ top_k = TOP_K_PATHWAYS
    /\ pathway_threshold = PATHWAY_THRESHOLD_DEFAULT
    /\ chunks = <<>>
    /\ program_to_pathway = [g \in ProgramIds |-> g]
    /\ program_threshold = PROGRAM_THRESHOLD_DEFAULT
    /\ max_programs = MAX_PROGRAMS_DEFAULT
    /\ occ_to_pathways = EmptyDict /\ occ_to_programs = EmptyDict
    /\ dry_run = FALSE /\ runs = 0
    /\ interest_matched_jobs \in SUBSET (OccupationIds \X RiasecCodes)
    /\ onet_occupation_data \in SUBSET OccupationIds
    /\ occupation_table \in SUBSET onet_occupation_data
    /\ programs_table = ProgramIds
    /\ table = {}
    /\ tx = NoTx
    /\ total_associations = None /\ exit_code = None
    /\ table_pre = table
    /\ failed_in = None /\ prev_live_ok = FALSE
    /\ last_op = NoOp
    /\ occupation_infos = NoInfos
    /\ populate_result = NoResult
    /\ IdleSearch /\ IdleRerun /\ IdleEmbed /\ IdleConc /\ IdleSim /\ IdleScope /\ IdleIngest /\ IdleAssess

notPopVars == <<coreVars, dry_run, runs, tx, total_associations, exit_code, table_pre,
                failed_in, prev_live_ok, simVars, programs_table, scopeVars, ingestVars, assessVars>>

\* populate_occupations(dry_run): the upsert of the prepared records and the commit;
\* with no record the INSERT has no values and writes nothing
PopulateOccupations ==
    \E dry \in BOOLEAN :
        LET records == occupation_records(interest_matched_jobs, onet_occupation_data)
        IN  /\ populate_result = NoResult
            /\ occupation_infos = NoInfos
            /\ occupation_table' = IF dry THEN occupation_table
                                   ELSE occupation_table \cup records
            /\ populate_result' = <<dry, Cardinality(records)>>
            /\ UNCHANGED <<notPopVars, table, last_op, interest_matched_jobs,
                           onet_occupation_data, occupation_infos>>

\* stage1_embed_occupations(db) of the association builder
Stage1EmbedOccupations ==
    /\ occupation_infos = NoInfos
    /\ occupation_infos' =
            <<embedded_occ_codes(interest_matched_jobs, onet_occupation_data)>>
    /\ UNCHANGED <<notPopVars, table, last_op, occupation_table, interest_matched_jobs,
                   onet_occupation_data, populate_result>>

\* Stage 3 for some programs of every embedded occupation: delete, insert, commit;
\* a row whose occupation is not in public.occupation violates the foreign key
Stage3BulkInsert ==
    /\ occupation_infos # NoInfos
    /\ last_op = NoOp
    /\ \E rows \in SUBSET (programs_table \X SeqToSet(occupation_infos[1])) :
            /\ rows # {}
            /\ IF \A r \in rows : r[2] \in occupation_table
               THEN /\ table' = rows
                    /\ last_op' = <<"insert", rows, Cardinality(rows)>>
               ELSE /\ table' = table
                    /\ last_op' = <<"insert_rejected", rows, 0>>
    /\ UNCHANGED <<notPopVars, occupation_table, popVars>>

NextPopulate == PopulateOccupations \/ Stage1EmbedOccupations \/ Stage3BulkInsert

SpecPopulate == InitPopulate /\ [][NextPopulate]_vars

(***************************************************************************)
(* session_scope() around an arbitrary block, used directly ("with") or    *)
(* through get_db().  The block adds and deletes rows, may commit by       *)
(* itself, and ends by returning or by raising.  table holds the committed *)
(* rows and tx the session's view of them.                                 *)
(***************************************************************************)
ScopeRows == ProgramIds \X {1}

\* what a block raises: subclasses of Exception, and a BaseException that is none
ExceptionKinds == {"ValueError", "IntegrityError"}
BaseExceptionKinds == {"KeyboardInterrupt"}

InitScope ==
    /\ pc = "idle"
    /\ occupation_embeddings = [i \in OccupationIds |-> <<1, 0>>]
    /\ pathway_embeddings = <<(<<1, 0>>), (<<0, 1>>)>>
    /\ argsort_ties = IdentityTies(Len(pathway_embeddings))
    /\ top_k = TOP_K_PATHWAYS
    /\ pathway_threshold = PATHWAY_THRESHOLD_DEFAULT
    /\ chunks = <<>>
    /\ program_to_pathway = [g \in ProgramIds |-> g]
    /\ program_threshold = PROGRAM_THRESHOLD_DEFAULT
    /\ max_programs = MAX_PROGRAMS_DEFAULT
    /\ occ_to_pathways = EmptyDict /\ occ_to_programs = EmptyDict
    /\ dry_run = FALSE /\ runs = 0
    /\ table \in SUBSET ScopeRows
    /\ tx = NoTx
    /\ total_associations = None /\ exit_code = None
    /\ table_pre = table
    /\ failed_in = None /\ prev_live_ok = FALSE
    /\ scope = NoScope
    /\ IdleSearch /\ IdleRerun /\ IdleEmbed /\ IdleConc /\ IdleCascade /\ IdleSim /\ IdlePop
    /\ IdleIngest /\ IdleAssess

notScopeVars == <<coreVars, dry_run, runs, total_associations, exit_code, failed_in,
                  prev_live_ok, cascadeVars, simVars, popVars, ingestVars, assessVars>>

\* db = SessionFactory(); _maybe_set_search_path(db); yield db
ScopeEnter ==
    /\ scope.pc \in {"outside", "closed"}
    /\ \E via \in {"session_scope", "get_db"} :
            scope' = [NoScope EXCEPT !.pc = "block", !.via = via]
    /\ tx' = <<table>>
    /\ table_pre' = table
    /\ UNCHANGED <<notScopeVars, table>>

\* the block adds or deletes a row in the session
BlockChange ==
    /\ scope.pc = "block"
    /\ \E r \in ScopeRows : tx' = <<tx[1] \cup {r}>> \/ tx' = <<tx[1] \ {r}>>
    /\ UNCHANGED <<notScopeVars, table, table_pre, scope>>

\* the block calls db.commit() itself
BlockCommit ==
    /\ scope.pc = "block"
    /\ table' = tx[1]
    /\ UNCHANGED <<notScopeVars, tx, table_pre, scope>>

\* the block ends normally: control returns after the yield
BlockReturns ==
    /\ scope.pc = "block"
    /\ scope' = [scope EXCEPT !.pc = "commit", !.block = "returned",
                              !.view_at_end = tx[1], !.committed_at_end = table]
    /\ UNCHANGED <<notScopeVars, table, tx, table_pre>>

\* the block raises: the exception is thrown into the generator at the yield
BlockRaises ==
    /\ scope.pc = "block"
    /\ \E e \in ExceptionKinds \cup BaseExceptionKinds :
            scope' = [scope EXCEPT !.pc = IF e \in ExceptionKinds THEN "except" ELSE "finally",
                                   !.block = e, !.propagated = e,
                                   !.view_at_end = tx[1], !.committed_at_end = table]
    /\ UNCHANGED <<notScopeVars, table, tx, table_pre>>

\* db.commit() after the yield
ScopeCommit ==
    /\ scope.pc = "commit"
    /\ table' = tx[1]
    /\ scope' = [scope EXCEPT !.pc = "finally"]
    /\ UNCHANGED <<notScopeVars, tx, table_pre>>

\* db.commit() after the yield raises
ScopeCommitRaises ==
    /\ scope.pc = "commit"
    /\ scope' = [scope EXCEPT !.pc = "except", !.propagated = "OperationalError"]
    /\ UNCHANGED <<notScopeVars, table, tx, table_pre>>

ScopeOnException_Commit ==
    /\ scope.pc = "except"
    /\ table' = tx[1]
    /\ scope' = [scope EXCEPT !.pc = "finally"]
    /\ UNCHANGED <<notScopeVars, tx, table_pre>>

\* except Exception: db.rollback(); raise
ScopeOnException ==
    /\ scope.pc = "except"
    /\ tx' = <<table>>
    /\ scope' = [scope EXCEPT !.pc = "finally"]
    /\ UNCHANGED <<notScopeVars, table, table_pre>>

\* finally: db.close(), which releases the connection and discards what is uncommitted
ScopeFinally ==
    /\ scope.pc = "finally"
    /\ tx' = NoTx
    /\ scope' = [scope EXCEPT !.pc = "closed", !.closes = scope.closes + 1]
    /\ UNCHANGED <<notScopeVars, table, table_pre>>

NextScope ==
    \/ ScopeEnter
    \/ BlockChange
    \/ BlockCommit
    \/ BlockReturns
    \/ BlockRaises
    \/ ScopeCommit
    \/ ScopeCommitRaises
    \/ ScopeOnException
    \/ ScopeFinally

SpecScope == InitScope /\ [][NextScope]_vars

(***************************************************************************)
(* Ingestion: ingest_sectors_and_pathways, ingest_programs and ingest_all. *)
(* A table is the set of its rows, at most one per id.  A sector row is    *)
(* kept as its id and name, a pathway row as id, name and sector_id, a     *)
(* program row as id, name, pathway_id and the three fields the update     *)
(* leaves alone; the other columns are written from the same input record  *)
(* as the name.  The session has autoflush=False: a query sees the         *)
(* committed rows, not the objects added in the same session.              *)
(***************************************************************************)
DEFAULT_INSTITUTION == "UH-UNKNOWN"
DEFAULT_DURATION_YEARS == 2
DEFAULT_TOTAL_CREDITS == 60
DEFAULT_COST_PER_CREDIT == 350

ProgramInputs == [id : {"g1", "g2"}, name : {"X", None}]
ProgramLists == {<<>>} \cup {<<g>> : g \in ProgramInputs}
PathwayInputs == [id : {"p1", "p2"}, name : {"P", None}, programs : ProgramLists]
PathwayLists == {<<>>} \cup {<<a>> : a \in PathwayInputs}
                    \cup {<<a, b>> : a \in PathwayInputs, b \in PathwayInputs}
SectorInputs == [id : {"s1"}, sector_name : {"A", None}, pathways : PathwayLists]
InputData == {<<sec>> : sec \in SectorInputs}

\* infer_program_attributes of populate_real_program_data for a university program
EnrichedValues == [duration_years |-> 4, total_credits |-> 120, cost_per_credit |-> 348]

\* a database ingested earlier from other data and enriched since
SeededDb ==
    [sectors |-> {[id |-> "s1", name |-> "old"]},
     pathways |-> {[id |-> "p1", name |-> "old", sector_id |-> "s1"]},
     programs |-> {[id |-> "g1", name |-> "old", pathway_id |-> "p1",
                    duration_years |-> EnrichedValues.duration_years,
                    total_credits |-> EnrichedValues.total_credits,
                    cost_per_credit |-> EnrichedValues.cost_per_credit]},
     institutions |-> {DEFAULT_INSTITUTION}]

Exists_never(tbl, id) == FALSE

\* db.query(Model).filter(Model.id == id).first() is not None
Exists(tbl, id) == \E r \in tbl : r.id = id

Row(tbl, id) == CHOOSE r \in tbl : r.id = id

\* the row of an existing object after its attributes are assigned
Put(tbl, row) == {r \in tbl : r.id # row.id} \cup {row}

\* the flush of a commit: two added objects with one primary key raise
pk_conflict(new_rows) ==
    \E m, n \in 1..Len(new_rows) : m # n /\ new_rows[m].id = new_rows[n].id

ZeroSectorStats ==
    [sectors_inserted |-> 0, sectors_updated |-> 0, pathways_inserted |-> 0,
     pathways_updated |-> 0, sectors_skipped |-> 0, pathways_skipped |-> 0]

ZeroProgramStats ==
    [programs_inserted |-> 0, programs_updated |-> 0, programs_skipped |-> 0,
     pathways_missing |-> 0, duplicates_skipped |-> 0]

\* ingest_sectors_and_pathways: the loop over the pathways of one sector
sector_pathways_loop(ses0, db, sector_id, pws) ==
    LET F[n \in 0..Len(pws)] ==
            IF n = 0 THEN ses0
            ELSE LET ses == F[n - 1]
                     pw == pws[n]
                     row == [id |-> pw.id, name |-> pw.name, sector_id |-> sector_id]
                 IN  IF pw.id = None \/ pw.name = None
                     THEN [ses EXCEPT !.stats.pathways_skipped = @ + 1]
                     ELSE IF Exists(db.pathways, pw.id)
                     THEN [ses EXCEPT !.pathways = Put(@, row),
                                      !.stats.pathways_updated = @ + 1]
                     ELSE [ses EXCEPT !.new_pathways = Append(@, row),
                                      !.stats.pathways_inserted = @ + 1]
    IN  F[Len(pws)]

\* ingest_sectors_and_pathways: the loop over the sectors
sectors_loop(db, d) ==
    LET F[n \in 0..Len(d)] ==
            IF n = 0
            THEN [sectors |-> db.sectors, new_sectors |-> <<>>,
                  pathways |-> db.pathways, new_pathways |-> <<>>,
                  stats |-> ZeroSectorStats]
            ELSE LET ses == F[n - 1]
                     sd == d[n]
                     row == [id |-> sd.id, name |-> sd.sector_name]
                 IN  IF sd.id = None \/ sd.sector_name = None
                     THEN [ses EXCEPT !.stats.sectors_skipped = @ + 1]
                     ELSE IF Exists(db.sectors, sd.id)
                     THEN sector_pathways_loop(
                            [ses EXCEPT !.sectors = Put(@, row),
                                        !.stats.sectors_updated = @ + 1],
                            db, sd.id, sd.pathways)
                     ELSE sector_pathways_loop(
                            [ses EXCEPT !.new_sectors = Append(@, row),
                                        !.stats.sectors_inserted = @ + 1],
                            db, sd.id, sd.pathways)
    IN  F[Len(d)]

\* ingest_sectors_and_pathways(data, dry_run): the database afterwards, the stats,
\* and whether the commit raised
ingest_sectors_and_pathways(db, d, dry) ==
    LET ses == sectors_loop(db, d)
    IN  IF dry THEN [db |-> db, stats |-> ses.stats, raised |-> FALSE]
        ELSE IF pk_conflict(ses.new_sectors) \/ pk_conflict(ses.new_pathways)
        THEN [db |-> db, stats |-> ses.stats, raised |-> TRUE]
        ELSE [db |-> [db EXCEPT !.sectors = ses.sectors \cup SeqToSet(ses.new_sectors),
                                !.pathways = ses.pathways \cup SeqToSet(ses.new_pathways)],
              stats |-> ses.stats, raised |-> FALSE]

updated_program_row_resets_placeholders(r, pg, pw) ==
    [r EXCEPT !.name = pg.name, !.pathway_id = pw.id,
              !.duration_years = DEFAULT_DURATION_YEARS,
              !.total_credits = DEFAULT_TOTAL_CREDITS,
              !.cost_per_credit = DEFAULT_COST_PER_CREDIT]

\* ingest_programs: the attributes assigned to an existing program
updated_program_row(r, pg, pw) == [r EXCEPT !.name = pg.name, !.pathway_id = pw.id]

\* ingest_programs: Program(...) of a new program
new_program_row(pg, pw) ==
    [id |-> pg.id, name |-> pg.name, pathway_id |-> pw.id,
     duration_years |-> DEFAULT_DURATION_YEARS,
     total_credits |-> DEFAULT_TOTAL_CREDITS,
     cost_per_credit |-> DEFAULT_COST_PER_CREDIT]

\* ingest_programs: the loop over the programs of one pathway
pathway_programs_loop(ses0, db, pw) ==
    LET pgs == pw.programs
        F[n \in 0..Len(pgs)] ==
            IF n = 0 THEN ses0
            ELSE LET ses == F[n - 1]
                     pg == pgs[n]
                 IN  IF pg.name = None \/ pg.id = None
                     THEN [ses EXCEPT !.stats.programs_skipped = @ + 1]
                     ELSE IF pg.id \in ses.processed_ids
                     THEN [ses EXCEPT !.stats.duplicates_skipped = @ + 1]
                     ELSE IF Exists(db.programs, pg.id)
                     THEN [ses EXCEPT
                            !.processed_ids = @ \cup {pg.id},
                            !.programs = Put(@, updated_program_row(Row(@, pg.id), pg, pw)),
                            !.stats.programs_updated = @ + 1]
                     ELSE [ses EXCEPT
                            !.processed_ids = @ \cup {pg.id},
                            !.new_programs = Append(@, new_program_row(pg, pw)),
                            !.stats.programs_inserted = @ + 1]
    IN  F[Len(pgs)]

\* ingest_programs: the loop over the pathways of one sector
sector_programs_loop(ses0, db, pws) ==
    LET F[n \in 0..Len(pws)] ==
            IF n = 0 THEN ses0
            ELSE LET ses == F[n - 1]
                     pw == pws[n]
                 IN  IF ~Exists(db.pathways, pw.id)
                     THEN [ses EXCEPT !.stats.pathways_missing = @ + 1]
                     ELSE pathway_programs_loop(ses, db, pw)
    IN  F[Len(pws)]

\* ingest_programs: the loop over the sectors
programs_loop(db, d) ==
    LET F[n \in 0..Len(d)] ==
            IF n = 0
            THEN [programs |-> db.programs, new_programs |-> <<>>, processed_ids |-> {},
                  stats |-> ZeroProgramStats]
            ELSE sector_programs_loop(F[n - 1], db, d[n].pathways)
    IN  F[Len(d)]

\* ingest_programs(data, dry_run), with get_or_create_default_institution
ingest_programs(db, d, dry) ==
    LET ses == programs_loop(db, d)
    IN  IF dry THEN [db |-> db, stats |-> ses.stats, raised |-> FALSE]
        ELSE [db |-> [db EXCEPT !.programs = ses.programs \cup SeqToSet(ses.new_programs),
                                !.institutions = @ \cup {DEFAULT_INSTITUTION}],
              stats |-> ses.stats, raised |-> FALSE]

InitIngest ==
    /\ pc = "idle"
    /\ occupation_embeddings = [i \in OccupationIds |-> <<1, 0>>]
    /\ pathway_embeddings = <<(<<1, 0>>), (<<0, 1>>)>>
    /\ argsort_ties = IdentityTies(Len(pathway_embeddings))
    /\ top_k = TOP_K_PATHWAYS
    /\ pathway_threshold = PATHWAY_THRESHOLD_DEFAULT
    /\ chunks = <<>>
    /\ program_to_pathway = [g \in ProgramIds |-> g]
    /\ program_threshold = PROGRAM_THRESHOLD_DEFAULT
    /\ max_programs = MAX_PROGRAMS_DEFAULT
    /\ occ_to_pathways = EmptyDict /\ occ_to_programs = EmptyDict
    /\ data \in InputData
    /\ ingest_db \in {EmptyDb, SeededDb}
    /\ ingest_db_pre = ingest_db
    /\ ingest = NoIngest
    /\ IdleDb /\ IdleSearch /\ IdleRerun /\ IdleEmbed /\ IdleConc
    /\ IdleCascade /\ IdleSim /\ IdlePop /\ IdleScope /\ IdleAssess

notIngestVars == <<coreVars, dbVars, cascadeVars, simVars, popVars, scopeVars, assessVars>>

FullRun(ing) == ~ing.skip_sectors /\ ~ing.skip_programs

\* ingest_all main(): the arguments, total_stats, and step 1 (sectors and pathways);
\* an exception of the step ends the process
IngestAllSectors ==
    /\ ingest.pc = "idle"
    /\ ingest.runs < MaxIngestRuns
    /\ \E dry \in BOOLEAN, skip_s \in BOOLEAN, skip_p \in BOOLEAN :
        LET r == IF skip_s
                 THEN [db |-> ingest_db, stats |-> ZeroSectorStats, raised |-> FALSE]
                 ELSE ingest_sectors_and_pathways(ingest_db, data, dry)
            total == [sectors_inserted |-> r.stats.sectors_inserted,
                      sectors_updated |-> r.stats.sectors_updated,
                      pathways_inserted |-> r.stats.pathways_inserted,
                      pathways_updated |-> r.stats.pathways_updated,
                      programs_inserted |-> 0, programs_updated |-> 0]
            started == [ingest EXCEPT !.dry_run = dry, !.skip_sectors = skip_s,
                                      !.skip_programs = skip_p, !.runs = @ + 1,
                                      !.preview_used =
                                            IF ~dry /\ ~skip_s /\ ~skip_p
                                            THEN ingest.preview ELSE NoPreview]
        IN  /\ ingest_db_pre' = ingest_db
            /\ ingest_db' = r.db
            /\ ingest' = IF r.raised
                         THEN [started EXCEPT !.pc = "idle", !.raised = TRUE,
                                              !.total_stats = NoStatsYet, !.fresh = TRUE]
                         ELSE [started EXCEPT !.pc = "programs_step", !.raised = FALSE,
                                              !.total_stats = <<total>>, !.fresh = FALSE]
    /\ UNCHANGED <<notIngestVars, data>>

\* ingest_all main(): step 2 (programs) and the summary
IngestAllPrograms ==
    /\ ingest.pc = "programs_step"
    /\ LET r == IF ingest.skip_programs
                THEN [db |-> ingest_db, stats |-> ZeroProgramStats, raised |-> FALSE]
                ELSE ingest_programs(ingest_db, data, ingest.dry_run)
           total == [ingest.total_stats[1] EXCEPT
                        !.programs_inserted = r.stats.programs_inserted,
                        !.programs_updated = r.stats.programs_updated]
           live_full == ~ingest.dry_run /\ FullRun(ingest)
       IN  /\ ingest_db' = r.db
           /\ ingest' = [ingest EXCEPT
                            !.pc = "idle", !.total_stats = <<total>>, !.fresh = TRUE,
                            !.preview = IF ingest.dry_run
                                        THEN (IF FullRun(ingest) THEN <<total>> ELSE @)
                                        ELSE NoPreview,
                            !.prev_live_total = IF live_full THEN ingest.last_live_total ELSE @,
                            !.last_live_total = IF live_full THEN <<total>> ELSE @,
                            !.live_full_runs = IF live_full THEN @ + 1 ELSE @]
    /\ UNCHANGED <<notIngestVars, data, ingest_db_pre>>

\* populate_real_program_data main(), confirmed: every program gets the inferred values
PopulateRealProgramData ==
    /\ ingest.pc = "idle"
    /\ \E r \in ingest_db.programs : r.duration_years # EnrichedValues.duration_years
    /\ ingest_db' = [ingest_db EXCEPT !.programs =
                        {[r EXCEPT !.duration_years = EnrichedValues.duration_years,
                                   !.total_credits = EnrichedValues.total_credits,
                                   !.cost_per_credit = EnrichedValues.cost_per_credit]
                            : r \in @}]
    /\ ingest' = [ingest EXCEPT !.fresh = FALSE, !.preview = NoPreview]
    /\ UNCHANGED <<notIngestVars, data, ingest_db_pre>>

NextIngest == IngestAllSectors \/ IngestAllPrograms \/ PopulateRealProgramData

SpecIngest == InitIngest /\ [][NextIngest]_vars

(***************************************************************************)
(* AssessmentService.process_riasec_code with RiasecRepository.  A code is *)
(* the sequence of its letters.  assess_db holds riasec.riasec_profiles    *)
(* (the stored codes), riasec.interest_matched_jobs (occ_code,             *)
(* fk_riasec_code, interest_sum) and the onetsoc_codes of                  *)
(* onet.occupation_data.                                                   *)
(***************************************************************************)
TOP_MATCHED_JOBS_LIMIT == 15

RIA == <<"R", "I", "A">>
IRA == <<"I", "R", "A">>
SEC == <<"S", "E", "C">>
ria == <<"r", "i", "a">>

\* SQL UPPER() of one letter
UpperLetter == [l \in {"R", "I", "A", "S", "E", "C", "r", "i", "a"} |->
                    IF l = "r" THEN "R" ELSE IF l = "i" THEN "I" ELSE IF l = "a" THEN "A" ELSE l]

UPPER(code) == [n \in 1..Len(code) |-> UpperLetter[code[n]]]

\* canonical_riasec maps a code to one fixed ordering of its letters
canonical_candidates(code) == {c \in {RIA, IRA, SEC} : SeqToSet(c) = SeqToSet(code)}

\* the interest_sum of the i-th matched job under each shape of the table
InterestSumShapes == {"increasing", "constant", "cyclic"}

interest_sum_of(shape, i) ==
    IF shape = "increasing" THEN i ELSE IF shape = "constant" THEN 5 ELSE i % 3

\* RiasecRepository.get_profile: <<{"code": ...}>>, or <<>> for None
get_profile(db, code) ==
    LET found == {c \in db.riasec_profiles : UPPER(c) = UPPER(code)}
    IN  IF found = {} THEN <<>> ELSE <<[code |-> CHOOSE c \in found : TRUE]>>

\* ORDER BY interest_sum DESC; rows with equal sums come in either order of occ_code
RECURSIVE order_by_interest_sum_desc(_, _)
order_by_interest_sum_desc(rows, ties_ascending) ==
    IF rows = {} THEN <<>>
    ELSE LET first == CHOOSE r \in rows : \A q \in rows :
                        \/ r.interest_sum > q.interest_sum
                        \/ /\ r.interest_sum = q.interest_sum
                           /\ IF ties_ascending THEN r.occ_code <= q.occ_code
                                                ELSE r.occ_code >= q.occ_code
         IN  <<first>> \o order_by_interest_sum_desc(rows \ {first}, ties_ascending)

\* RiasecRepository.top_matched_jobs: a list of dicts with the keys occ_code and title
top_matched_jobs(db, profile, limit, ties_ascending) ==
    LET joined == {r \in db.interest_matched_jobs :
                        /\ r.occ_code \in db.occupation_data
                        /\ UPPER(r.fk_riasec_code) = UPPER(profile.code)}
        ordered == order_by_interest_sum_desc(joined, ties_ascending)
    IN  [n \in 1..(IF Len(ordered) < limit THEN Len(ordered) ELSE limit) |->
            [occ_code |-> ordered[n].occ_code, title |-> <<"title", ordered[n].occ_code>>]]

\* j.occ_code on the elements of a list of dicts: the first element raises AttributeError
attribute_access_on_dicts(top_jobs) == IF Len(top_jobs) > 0 THEN "AttributeError" ELSE None

\* process_riasec_code after canonical_riasec: the RiasecResult, or the exception raised
process_riasec_code(db, canonical_code, ties_ascending) ==
    LET profile == get_profile(db, canonical_code)
        top_jobs == top_matched_jobs(db, profile[1], TOP_MATCHED_JOBS_LIMIT, ties_ascending)
    IN  IF profile # <<>>
        THEN IF attribute_access_on_dicts(top_jobs) # None
             THEN [raised |-> attribute_access_on_dicts(top_jobs), riasec_code |-> canonical_code,
                   occupation_pool |-> <<>>, top10_jobs |-> <<>>]
             ELSE [raised |-> None, riasec_code |-> canonical_code,
                   occupation_pool |-> <<>>, top10_jobs |-> <<>>]
        ELSE [raised |-> None, riasec_code |-> canonical_code,
              occupation_pool |-> <<>>, top10_jobs |-> <<>>]

InitRiasec ==
    /\ pc = "idle"
    /\ occupation_embeddings = [i \in OccupationIds |-> <<1, 0>>]
    /\ pathway_embeddings = <<(<<1, 0>>), (<<0, 1>>)>>
    /\ argsort_ties = IdentityTies(Len(pathway_embeddings))
    /\ top_k = TOP_K_PATHWAYS
    /\ pathway_threshold = PATHWAY_THRESHOLD_DEFAULT
    /\ chunks = <<>>
    /\ program_to_pathway = [g \in ProgramIds |-> g]
    /\ program_threshold = PROGRAM_THRESHOLD_DEFAULT
    /\ max_programs = MAX_PROGRAMS_DEFAULT
    /\ occ_to_pathways = EmptyDict /\ occ_to_programs = EmptyDict
    /\ \E profiles \in SUBSET {RIA, ria, SEC}, n \in 0..MaxMatchedJobs,
          shape \in InterestSumShapes, mixed_case \in BOOLEAN, missing \in SUBSET {1} :
            assess_db = [riasec_profiles |-> profiles,
                         interest_matched_jobs |->
                            {[occ_code |-> i,
                              fk_riasec_code |-> IF mixed_case /\ i % 2 = 0 THEN ria ELSE RIA,
                              interest_sum |-> interest_sum_of(shape, i)] : i \in 1..n},
                         occupation_data |-> (1..MaxMatchedJobs) \ missing]
    \* fk_riasec_code is a foreign key to riasec_profiles.code
    /\ \A r \in assess_db.interest_matched_jobs :
            r.fk_riasec_code \in assess_db.riasec_profiles
    /\ assess_in \in [riasec_code : {RIA, IRA, SEC}]
    /\ assess_out = NoOutcome
    /\ IdleDb /\ IdleSearch /\ IdleRerun /\ IdleEmbed /\ IdleConc
    /\ IdleCascade /\ IdleSim /\ IdlePop /\ IdleScope /\ IdleIngest

notAssessVars == <<coreVars, dbVars, cascadeVars, simVars, popVars, scopeVars, ingestVars>>

\* POST /assessment/riasec
ProcessRiasecCode ==
    /\ assess_out = NoOutcome
    /\ \E canonical_code \in canonical_candidates(assess_in.riasec_code),
          ties_ascending \in BOOLEAN :
            assess_out' = <<process_riasec_code(assess_db, canonical_code, ties_ascending)>>
    /\ UNCHANGED <<notAssessVars, assess_db, assess_in>>

NextRiasec == ProcessRiasecCode

SpecRiasec == InitRiasec /\ [][NextRiasec]_vars

(***************************************************************************)
(* AssessmentService.compute_skill_weights.  Ratings and data points are   *)
(* whole numbers, intermediate values are exact fractions in lowest terms, *)
(* and a value rounded to four decimals is the integer number of           *)
(* ten-thousandths.  assess_db maps each element id of the skills file to  *)
(* its definition; the data points of a definition increase from the 20th  *)
(* to the 80th percentile and are positive, so span and the divisor of     *)
(* mid_gap_factor are the differences themselves.                          *)
(***************************************************************************)
ROUND_SCALE == 10000

SkillElementIds == {"2.A.1.a", "2.A.1.b", "2.A.1.c"}
UnknownElementId == "9.Z.9.z"

\* skill_def.name.split()[0]
category_key == [e \in SkillElementIds |-> IF e = "2.A.1.c" THEN "Writing" ELSE "Active"]

DataPoints ==
    {[data_point_20 |-> 1, data_point_50 |-> 2, data_point_80 |-> 3],
     [data_point_20 |-> 2, data_point_50 |-> 3, data_point_80 |-> 4],
     [data_point_20 |-> 1, data_point_50 |-> 2, data_point_80 |-> 4]}

RawRatings == {1, 3, 5}

RECURSIVE GCD(_, _)
GCD(a, b) == IF b = 0 THEN a ELSE GCD(b, a % b)

\* the fraction n/d, n >= 0 and d > 0, in lowest terms
Rat(n, d) == [num |-> n \div GCD(n, d), den |-> d \div GCD(n, d)]

RatAdd(x, y) == Rat(x.num * y.den + y.num * x.den, x.den * y.den)
RatMul(x, y) == Rat(x.num * y.num, x.den * y.den)
RatDiv(x, y) == Rat(x.num * y.den, x.den * y.num)

\* round(x, 4): to the nearest ten-thousandth, an exact half to the even one
round4(x) ==
    LET scaled == x.num * ROUND_SCALE
        q == scaled \div x.den
        r == scaled % x.den
    IN  IF 2 * r > x.den THEN q + 1
        ELSE IF 2 * r < x.den THEN q
        ELSE IF q % 2 = 0 THEN q ELSE q + 1

\* normalized = (raw - dp20) / span, clipped to 0..1
normalized_of(skill_def, raw) ==
    LET span == skill_def.data_point_80 - skill_def.data_point_20
        above == raw - skill_def.data_point_20
    IN  IF above < 0 THEN Rat(0, 1)
        ELSE IF above > span THEN Rat(1, 1)
        ELSE Rat(above, span)

\* adjusted = normalized * (1 + mid_gap_factor)
adjusted_of(skill_def, raw) ==
    RatMul(normalized_of(skill_def, raw),
           Rat(2 * skill_def.data_point_80 - skill_def.data_point_50,
               skill_def.data_point_80))

\* the ratings whose element id has a definition, in the order of the submission
recognised(defs, ratings) == SelectSeq(ratings, LAMBDA rt : rt[1] \in DOMAIN defs)

\* the list "weighted"
weighted_of(defs, ratings) ==
    [n \in 1..Len(recognised(defs, ratings)) |->
        LET rt == recognised(defs, ratings)[n]
        IN  [element_id |-> rt[1], raw_rating |-> rt[2],
             normalized_score |-> round4(normalized_of(defs[rt[1]], rt[2])),
             adjusted_weight |-> round4(adjusted_of(defs[rt[1]], rt[2]))]]

\* sorted(weighted, key=adjusted_weight, reverse=True): stable
RECURSIVE sorted_by_adjusted_weight(_)
sorted_by_adjusted_weight(w) ==
    IF w = <<>> THEN <<>>
    ELSE LET first == CHOOSE m \in 1..Len(w) :
                        /\ \A n \in 1..Len(w) : w[m].adjusted_weight >= w[n].adjusted_weight
                        /\ \A n \in 1..(m - 1) : w[n].adjusted_weight < w[m].adjusted_weight
             rest == [n \in 1..(Len(w) - 1) |-> IF n < first THEN w[n] ELSE w[n + 1]]
         IN  <<w[first]>> \o sorted_by_adjusted_weight(rest)

\* category_acc after the first n recognised ratings
RECURSIVE category_acc_of(_, _, _)
category_acc_of(defs, rec, n) ==
    IF n = 0 THEN [k \in {} |-> Rat(0, 1)]
    ELSE LET acc == category_acc_of(defs, rec, n - 1)
             rt == rec[n]
             cat_key == category_key[rt[1]]
             got == IF cat_key \in DOMAIN acc THEN acc[cat_key] ELSE Rat(0, 1)
         IN  [k \in DOMAIN acc \cup {cat_key} |->
                IF k = cat_key THEN RatAdd(got, adjusted_of(defs[rt[1]], rt[2])) ELSE acc[k]]

RECURSIVE RatSum(_, _)
RatSum(acc, keys) ==
    IF keys = {} THEN Rat(0, 1)
    ELSE LET k == CHOOSE x \in keys : TRUE
         IN  RatAdd(acc[k], RatSum(acc, keys \ {k}))

total_cat_left_unnormalised(acc) == Rat(1, 1)

\* total_cat = sum(category_acc.values()) or 1.0
total_cat(acc) ==
    IF RatSum(acc, DOMAIN acc).num = 0 THEN Rat(1, 1) ELSE RatSum(acc, DOMAIN acc)

\* compute_skill_weights(submission)
compute_skill_weights(defs, submission) ==
    LET acc == category_acc_of(defs, recognised(defs, submission.ratings),
                               Len(recognised(defs, submission.ratings)))
    IN  [riasec_code |-> submission.riasec_code,
         weighted_skills |-> sorted_by_adjusted_weight(weighted_of(defs, submission.ratings)),
         category_weights |-> [k \in DOMAIN acc |-> round4(RatDiv(acc[k], total_cat(acc)))]]

\* a ratings dict: distinct element ids, in the order of the JSON object
RatingsDicts ==
    {rs \in UNION {[1..n -> (SkillElementIds \cup {UnknownElementId}) \X RawRatings]
                        : n \in 0..MaxRatings} :
        \A m, n \in 1..Len(rs) : rs[m][1] = rs[n][1] => m = n}

InitSkillWeights ==
    /\ pc = "idle"
    /\ occupation_embeddings = [i \in OccupationIds |-> <<1, 0>>]
    /\ pathway_embeddings = <<(<<1, 0>>), (<<0, 1>>)>>
    /\ argsort_ties = IdentityTies(Len(pathway_embeddings))
    /\ top_k = TOP_K_PATHWAYS
    /\ pathway_threshold = PATHWAY_THRESHOLD_DEFAULT
    /\ chunks = <<>>
    /\ program_to_pathway = [g \in ProgramIds |-> g]
    /\ program_threshold = PROGRAM_THRESHOLD_DEFAULT
    /\ max_programs = MAX_PROGRAMS_DEFAULT
    /\ occ_to_pathways = EmptyDict /\ occ_to_programs = EmptyDict
    /\ assess_db \in [SkillElementIds -> DataPoints]
    /\ assess_in \in [riasec_code : {RIA}, ratings : RatingsDicts]
    /\ assess_out = NoOutcome
    /\ IdleDb /\ IdleSearch /\ IdleRerun /\ IdleEmbed /\ IdleConc
    /\ IdleCascade /\ IdleSim /\ IdlePop /\ IdleScope /\ IdleIngest

\* POST /assessment/skills/weights
ComputeSkillWeights ==
    /\ assess_out = NoOutcome
    /\ assess_out' = <<compute_skill_weights(assess_db, assess_in)>>
    /\ UNCHANGED <<notAssessVars, assess_db, assess_in>>

NextSkillWeights == ComputeSkillWeights

SpecSkillWeights == InitSkillWeights /\ [][NextSkillWeights]_vars

(***************************************************************************)
(* main() when Stage 2 matches no occupation: the batch insert is executed *)
(* with an empty parameter list.  SQLAlchemy then runs the INSERT once     *)
(* with no values, and the NOT NULL primary key columns reject the row.    *)
(***************************************************************************)
\* stage3: db.execute(insert(program_occupation_association), []) of a live run
Stage3InsertEmptyList ==
    /\ pc = "stage3_insert"
    /\ ~dry_run
    /\ association_rows(occ_to_programs) = <<>>
    /\ failed_in' = "stage3_empty_insert"
    /\ pc' = "except"
    /\ UNCHANGED <<inputVars, matchVars, dry_run, runs, table, tx, total_associations,
                   exit_code, table_pre, prev_live_ok, searchVars, extVars>>

NextEmptyResult ==
    \/ StartRun
    \/ Stage1
    \/ Stage1Fails
    \/ Stage2
    \/ Stage2Fails
    \/ Stage3Clear
    \/ Stage3Insert
    \/ Stage3InsertEmptyList
    \/ Stage3Fails
    \/ ScopeExit
    \/ ScopeExcept

SpecEmptyResult == Init /\ [][NextEmptyResult]_vars

(***************************************************************************)
(* Stage 2 followed by a live Stage 3 on an empty table, as functions of   *)
(* their arguments; the insert is checked against the primary key.         *)
(***************************************************************************)
InitStages23 ==
    /\ pc = "stage2"
    /\ occupation_embeddings \in [OccupationIds -> Embeddings]
    /\ pathway_embeddings = <<(<<1, 0>>), (<<0, 1>>)>>
    /\ argsort_ties = IdentityTies(Len(pathway_embeddings))
    /\ top_k = TOP_K_PATHWAYS
    /\ pathway_threshold = PATHWAY_THRESHOLD_DEFAULT
    /\ chunks \in [1..NumChunks -> ChunkRows]
    /\ program_to_pathway \in [ProgramIds -> Stage2PathwayIds]
    /\ program_threshold = PROGRAM_THRESHOLD_DEFAULT
    /\ max_programs \in 1..MaxProgramsPerOcc
    /\ occ_to_pathways = stage1_map_occupations_to_pathways(
            occupation_embeddings, pathway_embeddings, top_k,
            pathway_threshold, argsort_ties)
    /\ occ_to_programs = EmptyDict
    /\ IdleDb /\ IdleSearch /\ IdleExt

\* stage3_populate_association_table(db, occ_to_programs, dry_run=False): the delete,
\* the batch insert, which raises when two rows have the same primary key, the commit
CallStage3 ==
    /\ pc = "stage2_returned"
    /\ LET rows == association_rows(occ_to_programs)
       IN  IF primary_key_ok(rows)
           THEN /\ table' = {rows[n] : n \in 1..Len(rows)}
                /\ total_associations' = Len(rows)
                /\ failed_in' = None
                /\ pc' = "stage3_returned"
           ELSE /\ failed_in' = "stage3"
                /\ pc' = "stage3_raised"
                /\ UNCHANGED <<table, total_associations>>
    /\ UNCHANGED <<inputVars, matchVars, dry_run, runs, tx, exit_code, table_pre,
                   prev_live_ok, searchVars, extVars>>

NextStages23 == CallStage2 \/ CallStage3

SpecStages23 == InitStages23 /\ [][NextStages23]_vars

(***************************************************************************)
(* Stage 3 next to other sessions: a second live run of main() on the same *)
(* inputs and a reader, get_programs_for_occupation, each with a session   *)
(* of its own.  A session sees the committed rows and its own changes      *)
(* (autocommit=False, one commit per run); a run that has deleted holds    *)
(* the row locks until it commits or rolls back, and the other run's       *)
(* delete waits for them.                                                  *)
(***************************************************************************)
\* the first run has executed its delete and not yet committed or rolled back
FirstRunHoldsLocks ==
    /\ ~dry_run
    /\ pc = "stage3_insert" \/ (pc = "except" /\ failed_in = "stage3")

SecondRunHoldsLocks == pc2 = "stage3_insert"

\* the rows of program_occupation_association as the second run's session sees them
SecondRunSees == IF tx2 = NoTx THEN table ELSE tx2[1]

\* select(Program).join(association).where(occupation_onet_code == onet_code)
programs_for_occupation(rows, onet_code) == {pr[1] : pr \in {q \in rows : q[2] = onet_code}}

InitConcurrent ==
    /\ pc = "idle"
    /\ occupation_embeddings \in [OccupationIds -> Embeddings]
    /\ pathway_embeddings = <<(<<1, 0>>), (<<0, 1>>)>>
    /\ argsort_ties = IdentityTies(Len(pathway_embeddings))
    /\ top_k = TOP_K_PATHWAYS
    /\ pathway_threshold = PATHWAY_THRESHOLD_DEFAULT
    /\ chunks = [g \in ProgramIds |->
                    [chunk_source_id |-> g, chunk_embedding |-> pathway_embeddings[g],
                     chunk_text |-> <<>>]]
    /\ program_to_pathway = [g \in ProgramIds |-> g]
    /\ program_threshold = PROGRAM_THRESHOLD_DEFAULT
    /\ max_programs = MAX_PROGRAMS_DEFAULT
    /\ occ_to_pathways = EmptyDict /\ occ_to_programs = EmptyDict
    /\ dry_run = FALSE /\ runs = 0
    /\ table \in SUBSET AllPairs
    /\ tx = NoTx
    /\ total_associations = None /\ exit_code = None
    /\ table_pre = table
    /\ failed_in = None /\ prev_live_ok = FALSE
    /\ IdleSearch /\ IdleRerun /\ IdleEmbed /\ IdleConc /\ IdleAux

\* the first run is a live run
FirstRunStart == StartRun /\ dry_run' = FALSE

\* its delete waits while the second run holds the row locks
FirstRunStage3Clear == ~SecondRunHoldsLocks /\ Stage3Clear

notConcVars == <<inputVars, matchVars, dry_run, runs, tx, total_associations, exit_code,
                 table_pre, failed_in, prev_live_ok, searchVars, rerunVars, embedVars,
                 auxVars>>

\* the second run opens its session and passes Stage 1 and Stage 2
SecondRunStart ==
    /\ pc2 = "idle"
    /\ pc2' = "stage3"
    /\ UNCHANGED <<pc, notConcVars, table, tx2, reader>>

\* Stage 3 of the second run: the delete, once the first run holds no row locks
SecondRunStage3Clear ==
    /\ pc2 = "stage3"
    /\ ~FirstRunHoldsLocks
    /\ tx2' = <<{}>>
    /\ pc2' = "stage3_insert"
    /\ UNCHANGED <<pc, notConcVars, table, reader>>

\* Stage 3 of the second run: the batch insert and db.commit(); the run ends
SecondRunStage3Insert ==
    /\ pc2 = "stage3_insert"
    /\ table' = associations(stage2_map_occupations_to_programs(
                    occupation_embeddings,
                    stage1_map_occupations_to_pathways(
                        occupation_embeddings, pathway_embeddings, top_k,
                        pathway_threshold, argsort_ties),
                    chunks, program_to_pathway, program_threshold, max_programs))
    /\ tx2' = NoTx
    /\ pc2' = "ended"
    /\ UNCHANGED <<pc, notConcVars, reader>>

\* the second run raises: session_scope rolls back; the run ends
SecondRunFails ==
    /\ pc2 \in {"stage3", "stage3_insert"}
    /\ tx2' = NoTx
    /\ pc2' = "ended"
    /\ UNCHANGED <<pc, notConcVars, table, reader>>

\* get_programs_for_occupation(db, onet_code) in a session of its own
ReadPrograms ==
    /\ \E o \in OccupationIds :
            reader' = <<[onet_code |-> o,
                         programs |-> programs_for_occupation(table, o),
                         uncommitted |-> FirstRunHoldsLocks \/ SecondRunHoldsLocks]>>
    /\ UNCHANGED <<pc, notConcVars, table, pc2, tx2>>

NextConcurrent ==
    \/ FirstRunStart
    \/ Stage1
    \/ Stage1Fails
    \/ Stage2
    \/ Stage2Fails
    \/ FirstRunStage3Clear
    \/ Stage3Insert
    \/ Stage3Fails
    \/ ScopeExit
    \/ ScopeExcept
    \/ SecondRunStart
    \/ SecondRunStage3Clear
    \/ SecondRunStage3Insert
    \/ SecondRunFails
    \/ ReadPrograms

SpecConcurrent == InitConcurrent /\ [][NextConcurrent]_vars

(***************************************************************************)
(* Query-time search: search_programs and hydrate_programs, as called by   *)
(* POST /programs/recommend.                                               *)
(***************************************************************************)
\* text[:160].replace("\n", " ")
preview(text) ==
    LET head == SliceTo(text, PREVIEW_CHARS)
    IN  [n \in 1..Len(head) |-> IF head[n] = "\n" THEN " " ELSE head[n]]

\* the dict best after the first n chunks: program_id -> (score, preview)
best_always_overwritten(q, chs) ==
    LET F[n \in 0..Len(chs)] ==
            IF n = 0 THEN EmptyDict
            ELSE LET b == F[n - 1]
                     g == chs[n].chunk_source_id
                     score == CosTable[chs[n].chunk_embedding, q]
                     prev == preview(chs[n].chunk_text)
                 IN  [h \in DOMAIN b \cup {g} |-> IF h = g THEN <<score, prev>> ELSE b[h]]
    IN  F[Len(chs)]

best(q, chs) ==
    LET F[n \in 0..Len(chs)] ==
            IF n = 0 THEN EmptyDict
            ELSE LET b == F[n - 1]
                     g == chs[n].chunk_source_id
                     score == CosTable[chs[n].chunk_embedding, q]
                     prev == preview(chs[n].chunk_text)
                 IN  IF g \notin DOMAIN b \/ score > b[g][1]
                     THEN [h \in DOMAIN b \cup {g} |-> IF h = g THEN <<score, prev>> ELSE b[h]]
                     ELSE b
    IN  F[Len(chs)]

\* sorted(..., key=lambda x: x.score, reverse=True)[:top_k] over best.items(),
\* which iterates in insertion order
search_programs(q, chs, k) ==
    LET b == best(q, chs)
        keys == program_ids(chs)
        items == [n \in 1..Len(keys) |-> <<keys[n], b[keys[n]][1], b[keys[n]][2]>>]
        sorted == sort_by_score_desc(items)
        cut == SliceTo(sorted, k)
    IN  [n \in 1..Len(cut) |->
            [program_id |-> cut[n][1], score |-> cut[n][2], preview |-> cut[n][3]]]

\* the scored programs found in the programs table, in the order given;
\* round(score, 4) keeps a score that is given in hundredths
hydrate_programs(scored, programs) ==
    LET found == SelectSeq(scored, LAMBDA sp : sp.program_id \in programs)
    IN  [n \in 1..Len(found) |->
            [program |-> found[n].program_id, score |-> found[n].score,
             preview |-> found[n].preview]]

Digits == <<"1", "2", "3", "4", "5", "6", "7", "8", "9">>

\* the text of the j-th stored chunk
ChunkText(j) == <<Digits[j], "\n", "x">>

SearchChunkRows(j) ==
    [chunk_source_id : ProgramIds, chunk_embedding : Embeddings, chunk_text : {ChunkText(j)}]

InitSearch ==
    /\ pc = "search"
    /\ occupation_embeddings = <<>> /\ pathway_embeddings = <<>>
    /\ argsort_ties = <<>>
    /\ top_k = TOP_K_PATHWAYS
    /\ pathway_threshold = PATHWAY_THRESHOLD_DEFAULT
    /\ chunks \in {c \in [1..NumSearchChunks -> UNION {SearchChunkRows(j) : j \in 1..NumSearchChunks}] :
                    \A j \in 1..NumSearchChunks : c[j].chunk_text = ChunkText(j)}
    /\ program_to_pathway \in [ProgramIds -> {1}]
    /\ program_threshold = PROGRAM_THRESHOLD_DEFAULT
    /\ max_programs = MAX_PROGRAMS_DEFAULT
    /\ occ_to_pathways = EmptyDict /\ occ_to_programs = EmptyDict
    /\ IdleDb
    /\ query_embedding \in Embeddings
    /\ search_top_k \in (0 - 1)..MaxSearchTopK
    /\ ranked = <<>> /\ results = <<>>
    /\ IdleExt

\* recommend_programs: scored = search_programs(db, query, top_k)
Search ==
    /\ pc = "search"
    /\ ranked' = search_programs(query_embedding, chunks, search_top_k)
    /\ pc' = "hydrate"
    /\ UNCHANGED <<inputVars, matchVars, dbVars, query_embedding, search_top_k, results,
                   extVars>>

\* recommend_programs: results = hydrate_programs(db, scored), returned as the response
Hydrate ==
    /\ pc = "hydrate"
    /\ results' = hydrate_programs(ranked, DOMAIN program_to_pathway)
    /\ pc' = "responded"
    /\ UNCHANGED <<inputVars, matchVars, dbVars, query_embedding, search_top_k, ranked,
                   extVars>>

NextSearch == Search \/ Hydrate

SpecSearch == InitSearch /\ [][NextSearch]_vars

(***************************************************************************)
(* The program-embedding job: data_pipeline/processor/embed_programs.py.   *)
(* A chunk is identified by the program it describes; a stored vector is   *)
(* represented by its number of dimensions.                                *)
(***************************************************************************)
\* chunk_program_text: one description chunk when the program has a description
chunk_program_text(g, descr) == IF descr[g] THEN <<g>> ELSE <<>>

\* all_chunks_data / all_texts: the chunks of all programs, in the order of the query
all_chunks_data(descr) ==
    LET progs == DOMAIN descr
        F[n \in 0..Cardinality(progs)] ==
            IF n = 0 THEN <<>> ELSE F[n - 1] \o chunk_program_text(n, descr)
    IN  F[Cardinality(progs)]

\* all_texts[i:i+batch_size]
batch_of(all, i, size) == SubSeq(all, i + 1, Min(i + size, Len(all)))

\* the vectors embed_func returns: embed_texts_voyage or embed_texts_local (no padding)
embedding_dims(local) == IF local THEN MINILM_L6_V2_DIMS ELSE VOYAGE_2_DIMS

\* the VectorChunk records of one batch; ids continue after the rows that exist
batch_rows(batch, local, base) ==
    {[id |-> base + n, chunk_source_id |-> batch[n], chunk_source_type |-> "program",
      chunk_embedding |-> [dims |-> embedding_dims(local)]] : n \in 1..Len(batch)}

InitEmbed ==
    /\ pc = "idle"
    /\ occupation_embeddings = <<>> /\ pathway_embeddings = <<>>
    /\ argsort_ties = <<>>
    /\ top_k = TOP_K_PATHWAYS
    /\ pathway_threshold = PATHWAY_THRESHOLD_DEFAULT
    /\ chunks = <<>>
    /\ program_to_pathway \in [ProgramIds -> {1}]
    /\ program_threshold = PROGRAM_THRESHOLD_DEFAULT
    /\ max_programs = MAX_PROGRAMS_DEFAULT
    /\ occ_to_pathways = EmptyDict /\ occ_to_programs = EmptyDict
    /\ IdleDb /\ IdleSearch /\ IdleRerun /\ IdleConc /\ IdleAux
    /\ vector_chunks = {} /\ embed_session = NoTx
    /\ program_descriptions \in [ProgramIds -> BOOLEAN]
    /\ batch_size \in 1..MaxBatchSize
    /\ use_local = FALSE /\ voyage_api_key = FALSE /\ backend_available = FALSE
    /\ batch_start = 0 /\ model_loads = 0 /\ stats = NoStats
    /\ vector_chunks_pre = {}

\* everything of the other components
notEmbedVars == <<inputVars, matchVars, table, tx, total_associations, table_pre,
                  failed_in, prev_live_ok, searchVars, rerunVars, concVars, auxVars>>

\* main() of embed_programs.py is started in a new process
StartEmbed ==
    /\ pc = "idle"
    /\ runs < MaxEmbedRuns
    /\ runs' = runs + 1
    /\ dry_run' \in BOOLEAN
    /\ use_local' \in BOOLEAN
    /\ voyage_api_key' \in BOOLEAN
    /\ backend_available' \in BOOLEAN
    /\ batch_start' = 0 /\ model_loads' = 0 /\ stats' = NoStats
    /\ vector_chunks_pre' = vector_chunks
    /\ exit_code' = None
    /\ pc' = "embed_start"
    /\ UNCHANGED <<notEmbedVars, vector_chunks, embed_session, program_descriptions,
                   batch_size>>

\* ingest_program_embeddings: VOYAGE_API_KEY missing: ValueError; main(): sys.exit(1)
EmbedKeyMissing ==
    /\ pc = "embed_start"
    /\ ~use_local /\ ~voyage_api_key
    /\ exit_code' = 1
    /\ pc' = "idle"
    /\ UNCHANGED <<notEmbedVars, dry_run, runs, embedVars>>

\* with session_scope() as db: the programs are read and chunked
EmbedOpenSession ==
    /\ pc = "embed_start"
    /\ use_local \/ voyage_api_key
    /\ embed_session' = <<{}>>
    /\ pc' = "embed_batches"
    /\ UNCHANGED <<notEmbedVars, dry_run, runs, exit_code, vector_chunks,
                   program_descriptions, batch_size, use_local, voyage_api_key,
                   backend_available, batch_start, model_loads, stats, vector_chunks_pre>>

\* one iteration of the batch loop: embed_func returns, the records are added
EmbedBatch ==
    /\ pc = "embed_batches"
    /\ batch_start < Len(all_chunks_data(program_descriptions))
    /\ backend_available
    /\ LET batch == batch_of(all_chunks_data(program_descriptions), batch_start, batch_size)
           base == Cardinality(vector_chunks) + Cardinality(embed_session[1])
       IN  /\ embed_session' = <<embed_session[1] \cup batch_rows(batch, use_local, base)>>
           /\ stats' = [stats EXCEPT !.chunks_created = @ + Len(batch)]
    /\ model_loads' = IF use_local THEN model_loads + 1 ELSE model_loads
    /\ batch_start' = batch_start + batch_size
    /\ UNCHANGED <<pc, notEmbedVars, dry_run, runs, exit_code, vector_chunks,
                   program_descriptions, batch_size, use_local, voyage_api_key,
                   backend_available, vector_chunks_pre>>

\* one iteration of the batch loop: embed_func raises; "except Exception: ... continue"
EmbedBatchFails ==
    /\ pc = "embed_batches"
    /\ batch_start < Len(all_chunks_data(program_descriptions))
    /\ ~backend_available
    /\ stats' = [stats EXCEPT !.errors = @ + 1]
    /\ batch_start' = batch_start + batch_size
    /\ UNCHANGED <<pc, notEmbedVars, dry_run, runs, exit_code, vector_chunks, embed_session,
                   program_descriptions, batch_size, use_local, voyage_api_key,
                   backend_available, model_loads, vector_chunks_pre>>

\* after the loop: db.rollback() of a dry run, db.commit() of a live run
EmbedFinish ==
    /\ pc = "embed_batches"
    /\ batch_start >= Len(all_chunks_data(program_descriptions))
    /\ stats' = [stats EXCEPT !.programs_processed =
                    Cardinality({g \in DOMAIN program_descriptions : program_descriptions[g]})]
    /\ vector_chunks' = IF dry_run THEN vector_chunks ELSE vector_chunks \cup embed_session[1]
    /\ embed_session' = <<{}>>
    /\ pc' = "embed_scope_exit"
    /\ UNCHANGED <<notEmbedVars, dry_run, runs, exit_code, program_descriptions, batch_size,
                   use_local, voyage_api_key, backend_available, batch_start, model_loads,
                   vector_chunks_pre>>

\* db.commit() raises: session_scope rolls back and re-raises; main(): sys.exit(1)
EmbedCommitFails ==
    /\ pc = "embed_batches"
    /\ batch_start >= Len(all_chunks_data(program_descriptions))
    /\ ~dry_run
    /\ embed_session' = NoTx
    /\ exit_code' = 1
    /\ pc' = "idle"
    /\ UNCHANGED <<notEmbedVars, dry_run, runs, vector_chunks, program_descriptions,
                   batch_size, use_local, voyage_api_key, backend_available, batch_start,
                   model_loads, stats, vector_chunks_pre>>

\* session_scope after the block; main() prints the summary and ends with exit code 0
EmbedScopeExit ==
    /\ pc = "embed_scope_exit"
    /\ embed_session' = NoTx
    /\ exit_code' = 0
    /\ pc' = "idle"
    /\ UNCHANGED <<notEmbedVars, dry_run, runs, vector_chunks, program_descriptions,
                   batch_size, use_local, voyage_api_key, backend_available, batch_start,
                   model_loads, stats, vector_chunks_pre>>

NextEmbed ==
    \/ StartEmbed
    \/ EmbedKeyMissing
    \/ EmbedOpenSession
    \/ EmbedBatch
    \/ EmbedBatchFails
    \/ EmbedFinish
    \/ EmbedCommitFails
    \/ EmbedScopeExit

SpecEmbed == InitEmbed /\ [][NextEmbed]_vars

SimRow(i) == cosine_similarity_matrix(occupation_embeddings, pathway_embeddings)[i]

Stage1Result(i) == IF i \in DOMAIN occ_to_pathways THEN occ_to_pathways[i] ELSE <<>>

Qualifying(i) == {p \in 1..Len(pathway_embeddings) : SimRow(i)[p] >= pathway_threshold}

\* the whole ranking, filtered by the threshold first and cut to top_k afterwards
FilterThenCut(i) ==
    LET ranking == Reverse(argsort(SimRow(i), argsort_ties))
        kept == SelectSeq(ranking, LAMBDA p : SimRow(i)[p] >= pathway_threshold)
        cut == SliceTo(kept, top_k)
    IN  [n \in 1..Len(cut) |-> <<cut[n], SimRow(i)[cut[n]]>>]

(***************************************************************************)
(* C6: for each occupation, Stage 1 returns the pathways scoring at least  *)
(* the threshold among the top_k highest-scoring ones, in non-increasing   *)
(* score order; that list is the threshold-filtered ranking cut to top_k;  *)
(* an occupation with no qualifying pathway has no entry.                  *)
(***************************************************************************)
C6_Stage1TopKThreshold ==
    pc = "stage1_returned" =>
        \A i \in DOMAIN occupation_embeddings :
            LET R == Stage1Result(i)
                P == {R[n][1] : n \in 1..Len(R)}
            IN  /\ R = FilterThenCut(i)
                /\ Len(R) = Min(top_k, Cardinality(Qualifying(i)))
                /\ Cardinality(P) = Len(R)
                /\ P \subseteq Qualifying(i)
                /\ \A n \in 1..Len(R) : R[n][2] = SimRow(i)[R[n][1]]
                /\ \A n \in 1..(Len(R) - 1) : R[n][2] >= R[n + 1][2]
                /\ \A p \in Qualifying(i) \ P : \A n \in 1..Len(R) : SimRow(i)[p] <= R[n][2]
                /\ (i \in DOMAIN occ_to_pathways) = (Qualifying(i) # {})

\* one occupation loses a qualifying pathway to the cut, another keeps fewer than
\* top_k pathways because the threshold removes one of its top_k
C6_Witness ==
    /\ pc = "stage1_returned"
    /\ \E i \in DOMAIN occ_to_pathways :
            /\ Len(occ_to_pathways[i]) = top_k
            /\ Cardinality(Qualifying(i)) > top_k
    /\ \E i \in DOMAIN occ_to_pathways :
            /\ Len(occ_to_pathways[i]) < top_k
            /\ Qualifying(i) # 1..Len(pathway_embeddings)

\* the pathways of occupation i by descending score, equal scores in candidate order,
\* cut to top_k and then filtered by the threshold
StableTopK(i) ==
    LET row == SimRow(i)
        ranking == sort_by_score_desc([p \in 1..Len(row) |-> <<p, row[p]>>])
    IN  SelectSeq(SliceTo(ranking, top_k), LAMBDA m : m[2] >= pathway_threshold)

(***************************************************************************)
(* C17: in Stage 1, pathways with equal scores are ranked in their         *)
(* candidate order, which decides which of them are within the first top_k *)
(* and their order in the returned list.                                   *)
(***************************************************************************)
C17_Stage1TiesInCandidateOrder ==
    pc = "stage1_returned" =>
        \A i \in DOMAIN occupation_embeddings : Stage1Result(i) = StableTopK(i)

(***************************************************************************)
(* Stage 2 as the claims describe it.                                      *)
(***************************************************************************)
Stage2Result(i) == IF i \in DOMAIN occ_to_programs THEN occ_to_programs[i] ELSE <<>>

Stage2Programs(i) == {Stage2Result(i)[n][1] : n \in 1..Len(Stage2Result(i))}

\* the pathways Stage 1 matched to occupation i
MatchedTo(i) ==
    IF i \in DOMAIN occ_to_pathways
    THEN {occ_to_pathways[i][n][1] : n \in 1..Len(occ_to_pathways[i])}
    ELSE {}

EmbeddedPrograms == {chunks[j].chunk_source_id : j \in 1..Len(chunks)}

\* similarity of occupation i and program g, from the program's stored vector
ProgramScore(i, g) ==
    LET rows == {j \in 1..Len(chunks) : chunks[j].chunk_source_id = g}
        last == CHOOSE j \in rows : \A k \in rows : k <= j
    IN  cosine(occupation_embeddings[i], chunks[last].chunk_embedding)

QualifyingPrograms(i) ==
    {g \in EmbeddedPrograms :
        program_to_pathway[g] \in MatchedTo(i) /\ ProgramScore(i, g) >= program_threshold}

(***************************************************************************)
(* C1: every program in an occupation's Stage 2 result belongs to a        *)
(* pathway Stage 1 matched to that occupation, whatever its similarity.    *)
(***************************************************************************)
C1_PathwayHardFilter ==
    pc = "stage2_returned" =>
        \A i \in DOMAIN occ_to_programs :
            \A g \in Stage2Programs(i) : program_to_pathway[g] \in MatchedTo(i)

\* a program of a non-matched pathway is more similar to the occupation than a
\* program the occupation got
C1_Witness ==
    /\ pc = "stage2_returned"
    /\ \E i \in DOMAIN occ_to_programs :
        \E g \in EmbeddedPrograms \ Stage2Programs(i) :
        \E h \in Stage2Programs(i) :
            /\ program_to_pathway[g] \notin MatchedTo(i)
            /\ ProgramScore(i, g) > ProgramScore(i, h)

PrevStage2Programs(i) ==
    IF prev_occ_to_programs # NoPrev /\ i \in DOMAIN prev_occ_to_programs[1]
    THEN {prev_occ_to_programs[1][i][n][1] : n \in 1..Len(prev_occ_to_programs[1][i])}
    ELSE {}

(***************************************************************************)
(* C11: when Stage 2 is run again with a lower program_threshold and       *)
(* nothing else changed, every occupation keeps all the programs it had    *)
(* with the higher threshold.                                              *)
(***************************************************************************)
C11_MonotoneInProgramThreshold ==
    (pc = "stage2_returned" /\ prev_occ_to_programs # NoPrev) =>
        \A i \in DOMAIN occupation_embeddings :
            PrevStage2Programs(i) \subseteq Stage2Programs(i)

\* the lower threshold admits a candidate of an occupation whose list was already
\* at the cap, and another occupation got a program it did not have before
C11_Witness ==
    /\ pc = "stage2_returned" /\ prev_occ_to_programs # NoPrev
    /\ \E i \in DOMAIN occupation_embeddings :
            /\ Cardinality(PrevStage2Programs(i)) = max_programs
            /\ Cardinality(QualifyingPrograms(i)) > max_programs
            /\ \E g \in QualifyingPrograms(i) :
                    ProgramScore(i, g) < Stage2Result(i)[1][2]
    /\ \E i \in DOMAIN occupation_embeddings :
            PrevStage2Programs(i) # Stage2Programs(i)

(***************************************************************************)
(* The pipeline run as the claims describe it.                             *)
(***************************************************************************)
RunEnded == pc = "idle" /\ runs > 0

LiveRunSucceeded == RunEnded /\ ~dry_run /\ exit_code = 0

\* the (program, occupation) pairs of the Stage 2 result
Stage2Pairs == {pr \in AllPairs : pr[1] \in Stage2Programs(pr[2])}

(***************************************************************************)
(* C2: after a successful live run the association table holds exactly the *)
(* pairs of the Stage 2 result, whatever it held before.                   *)
(***************************************************************************)
C2_Stage3FullReplace == LiveRunSucceeded => table = Stage2Pairs

\* a stored pair was not recomputed, and a computed pair was not stored before
C2_Witness ==
    /\ LiveRunSucceeded
    /\ table_pre \ Stage2Pairs # {}
    /\ Stage2Pairs \ table_pre # {}

(***************************************************************************)
(* C3: during and after a dry run the committed table is the table of the  *)
(* start of the run, and the run returns the number of pairs it would      *)
(* insert.                                                                 *)
(***************************************************************************)
C3_DryRunLeavesTable ==
    (runs > 0 /\ dry_run) =>
        /\ table = table_pre
        /\ (pc = "idle" /\ exit_code = 0) =>
                total_associations = Cardinality(Stage2Pairs)

\* a dry run ended whose result differs from the non-empty stored table
C3_Witness ==
    /\ RunEnded /\ dry_run /\ exit_code = 0
    /\ table_pre # {}
    /\ Stage2Pairs # {}
    /\ table_pre # Stage2Pairs

(***************************************************************************)
(* C4: Stage 3 is all-or-nothing: the committed table is always the table  *)
(* of the start of the run or the complete Stage 2 result; a run that      *)
(* failed in Stage 3 ends with the exception reported (exit code 1), the   *)
(* session rolled back and the table as before the run.                    *)
(***************************************************************************)
C4_Stage3AllOrNothing ==
    runs > 0 =>
        /\ table = table_pre \/ (~dry_run /\ failed_in = None /\ table = Stage2Pairs)
        /\ failed_in = "stage3" => table = table_pre
        /\ (pc = "idle" /\ failed_in = "stage3") => (exit_code = 1 /\ tx = NoTx)

\* Stage 3 failed after its delete, with rows stored before and rows to insert
C4_Witness ==
    /\ RunEnded /\ failed_in = "stage3"
    /\ table_pre # {}
    /\ Stage2Pairs # {}
    /\ table_pre # Stage2Pairs

\* sum over the occupations Stage 1 retained of min(max_programs, qualifying programs)
CappedQualifyingTotal ==
    LET last == Len(occupation_embeddings)
        S[n \in 0..last] ==
            IF n = 0 THEN 0
            ELSE S[n - 1] + (IF n \in DOMAIN occ_to_pathways
                             THEN Min(max_programs, Cardinality(QualifyingPrograms(n)))
                             ELSE 0)
    IN  S[last]

RowsOf(i) == {pr \in table : pr[2] = i}

Stage12Complete ==
    /\ occ_to_pathways = stage1_map_occupations_to_pathways(
            occupation_embeddings, pathway_embeddings, top_k,
            pathway_threshold, argsort_ties)
    /\ DOMAIN occ_to_programs = {i \in DOMAIN occupation_embeddings :
                                    QualifyingPrograms(i) # {}}

(***************************************************************************)
(* C5: the session's view of the table changes only in Stage 3, after      *)
(* Stage 1 and Stage 2 have returned their complete results; a run that    *)
(* raised in Stage 1 or Stage 2 ends with exit code 1 and the table as     *)
(* before the run.                                                         *)
(***************************************************************************)
C5_Stage3AfterStages12 ==
    /\ [](failed_in \in {"stage1", "stage2"} =>
            /\ table = table_pre
            /\ tx \in {NoTx, <<table_pre>>}
            /\ pc = "idle" => exit_code = 1)
    /\ [][(tx # NoTx /\ tx' # NoTx /\ tx' # tx) =>
            (pc \in {"stage3", "stage3_insert"} /\ failed_in = None /\ Stage12Complete)]_vars

\* a live run raised in Stage 1 or Stage 2 while the table held rows
C5_Witness ==
    /\ RunEnded /\ ~dry_run
    /\ failed_in \in {"stage1", "stage2"}
    /\ table_pre # {}

DeterminedByInputs ==
    associations(stage2_map_occupations_to_programs(
        occupation_embeddings,
        stage1_map_occupations_to_pathways(
            occupation_embeddings, pathway_embeddings, top_k,
            pathway_threshold, argsort_ties),
        chunks, program_to_pathway, program_threshold, max_programs))

(***************************************************************************)
(* C10: a successful live run that follows a successful live run on the    *)
(* same inputs leaves the table as it found it, and that table is the one  *)
(* the inputs determine.                                                   *)
(***************************************************************************)
C10_LivePipelineIdempotent ==
    (LiveRunSucceeded /\ prev_live_ok) =>
        /\ table = table_pre
        /\ table = DeterminedByInputs

\* two successful live runs in a row, with rows in the table
C10_Witness ==
    /\ LiveRunSucceeded /\ prev_live_ok
    /\ runs >= 2
    /\ table # {}

(***************************************************************************)
(* C20: the rows Stage 3 inserts in one run are pairwise different on      *)
(* (program_id, occupation_onet_code), also when a program has several     *)
(* stored chunks, so the batch insert does not violate the primary key.    *)
(***************************************************************************)
C20_InsertedPairsUnique ==
    pc \in {"stage3_returned", "stage3_raised"} =>
        /\ primary_key_ok(association_rows(occ_to_programs))
        /\ failed_in = None
        /\ Cardinality(table) = total_associations
        /\ table = Stage2Pairs

\* a program with two stored chunks is inserted, and two occupations share a program
C20_Witness ==
    /\ pc = "stage3_returned"
    /\ \E j, k \in 1..Len(chunks) :
            /\ j # k
            /\ chunks[j].chunk_source_id = chunks[k].chunk_source_id
            /\ \E i \in OccupationIds : <<chunks[j].chunk_source_id, i>> \in table
    /\ \E g \in ProgramIds : \A i \in OccupationIds : <<g, i>> \in table

(***************************************************************************)
(* Stage 3 as other sessions see it.                                       *)
(***************************************************************************)
\* the first run has deleted and not yet inserted
BetweenDeleteAndInsert == pc = "stage3_insert" /\ ~dry_run /\ tx = <<{}>>

(***************************************************************************)
(* C18: whenever get_programs_for_occupation runs, also while a live       *)
(* Stage 3 is under way, it returns the occupation's programs of the       *)
(* complete set the table held before the run or of the complete newly     *)
(* computed set.                                                           *)
(***************************************************************************)
C18_ReadersSeeCompleteSets ==
    [][ReadPrograms =>
        reader'[1].programs \in
            {programs_for_occupation(table_pre, reader'[1].onet_code),
             programs_for_occupation(DeterminedByInputs, reader'[1].onet_code)}]_vars

\* a read between the delete and the insert of a live run returned the programs the
\* occupation had before the run, which are not the ones it gets
C18_Witness ==
    /\ BetweenDeleteAndInsert
    /\ reader # NoRead
    /\ reader[1].uncommitted
    /\ reader[1].programs # {}
    /\ reader[1].programs = programs_for_occupation(table_pre, reader[1].onet_code)
    /\ reader[1].programs # programs_for_occupation(DeterminedByInputs, reader[1].onet_code)
    /\ programs_for_occupation(DeterminedByInputs, reader[1].onet_code) # {}

ChunksOf(g) == {j \in 1..Len(chunks) : chunks[j].chunk_source_id = g}

ChunkScore(j) == cosine(chunks[j].chunk_embedding, query_embedding)

\* the maximum similarity over the program's chunks
BestScore(g) ==
    CHOOSE m \in {ChunkScore(j) : j \in ChunksOf(g)} :
        \A j \in ChunksOf(g) : ChunkScore(j) <= m

Searched == pc \in {"hydrate", "responded"}

(***************************************************************************)
(* The program-embedding job as the claims describe it.                    *)
(***************************************************************************)
EmbedRunEnded == pc = "idle" /\ runs > 0

\* the run needed the backend: there was a chunk to embed
BackendNeeded == Len(all_chunks_data(program_descriptions)) > 0

(***************************************************************************)
(* C13: every stored program vector has the D = 1024 dimensions of the     *)
(* occupation and query vectors it is compared with.                       *)
(***************************************************************************)
C13_StoredVectorsHaveDimD ==
    \A row \in vector_chunks : row.chunk_embedding.dims = PAD_TO

(***************************************************************************)
(* C14: after a live run that embedded every chunk, the table holds only   *)
(* rows produced by that run: no row of an earlier run remains.            *)
(***************************************************************************)
C14_ReembeddingReplaces ==
    (EmbedRunEnded /\ ~dry_run /\ exit_code = 0 /\ stats.errors = 0) =>
        vector_chunks \cap vector_chunks_pre = {}

(***************************************************************************)
(* C15: a run of the program-embedding job whose backend is unavailable    *)
(* ends with a non-zero exit code and commits nothing.                     *)
(***************************************************************************)
C15_UnavailableBackendIsHardFailure ==
    (EmbedRunEnded /\ ~backend_available /\ BackendNeeded) =>
        /\ exit_code # 0
        /\ vector_chunks = vector_chunks_pre

(***************************************************************************)
(* C16: within one process the embedding model is loaded at most once.     *)
(***************************************************************************)
C16_ModelLoadedAtMostOnce == model_loads <= 1

(***************************************************************************)
(* C8: search_programs returns each program at most once, with the maximum *)
(* similarity over the program's chunks as its score and with the preview  *)
(* of a chunk that attains that maximum.                                   *)
(***************************************************************************)
C8_SearchBestChunkPerProgram ==
    Searched =>
        /\ \A m, n \in 1..Len(ranked) :
                ranked[m].program_id = ranked[n].program_id => m = n
        /\ \A n \in 1..Len(ranked) :
            LET g == ranked[n].program_id
            IN  /\ ChunksOf(g) # {}
                /\ ranked[n].score = BestScore(g)
                /\ \E j \in ChunksOf(g) :
                        /\ ChunkScore(j) = BestScore(g)
                        /\ ranked[n].preview = <<Digits[j], " ", "x">>

\* a returned program whose best chunk is neither its first nor its last one
C8_Witness ==
    /\ Searched
    /\ \E n \in 1..Len(ranked) :
        LET g == ranked[n].program_id
        IN  \E i, j, k \in ChunksOf(g) :
                /\ i < j /\ j < k
                /\ ChunkScore(i) < ChunkScore(j)
                /\ ChunkScore(k) < ChunkScore(j)
                /\ \A l \in ChunksOf(g) : i <= l
                /\ \A l \in ChunksOf(g) : l <= k

(***************************************************************************)
(* C9: for every top_k the request accepts, the response holds at most     *)
(* top_k programs (none when top_k <= 0), in non-increasing score order,   *)
(* and no program left out scores strictly higher than a returned one.     *)
(***************************************************************************)
C9_SearchAtMostTopK ==
    pc = "responded" =>
        /\ Len(results) <= Max(search_top_k, 0)
        /\ \A n \in 1..(Len(results) - 1) : results[n].score >= results[n + 1].score
        /\ \A g \in {chunks[j].chunk_source_id : j \in 1..Len(chunks)} :
                (\A n \in 1..Len(results) : results[n].program # g) =>
                    \A n \in 1..Len(results) : BestScore(g) <= results[n].score

(***************************************************************************)
(* C21: an occupation without a qualifying pathway or program is a         *)
(* legitimate empty result: the run raises no error and the occupation has *)
(* no association rows afterwards, also when every occupation is excluded  *)
(* and the live run ends with an empty association table.                  *)
(***************************************************************************)
EnvironmentFailures == {"stage1", "stage2", "stage3"}

C21_EmptyResultIsNoError ==
    (/\ pc = "idle" /\ runs > 0 /\ ~dry_run
     /\ failed_in \notin EnvironmentFailures) =>
        /\ exit_code = 0
        /\ \A i \in OccupationIds :
                i \notin DOMAIN occ_to_programs => programs_for_occupation(table, i) = {}

C23_ZeroVectorSimilarityIsZero ==
    similarity # NoSim =>
        \A i \in 1..Len(similarity[2]), j \in 1..Len(sim_B) :
            LET a == IF similarity[1] = "cosine_similarity_matrix" THEN sim_A[i] ELSE sim_A[1]
            IN  (a = ZeroVector \/ sim_B[j] = ZeroVector) => similarity[2][i][j] = Finite(0)

\* a zero vector was compared with a non-zero one and a non-zero score was computed too
C23_Witness ==
    /\ similarity # NoSim
    /\ sim_A[1] = ZeroVector
    /\ sim_B[1] # ZeroVector /\ sim_B[2] = ZeroVector
    /\ similarity[2][1][1] = Finite(0)
    /\ sim_A[2] = sim_B[1]
    /\ similarity[1] = "cosine_similarity_matrix" => similarity[2][2][1] = Finite(100)

(***************************************************************************)
(* C24: after a live populate_occupations on the same RIASEC / O*NET data, *)
(* every occupation code of Stage 1 of the association builder exists in   *)
(* public.occupation, so the bulk insert of Stage 3 cannot violate the     *)
(* occupation foreign key.                                                 *)
(***************************************************************************)
PopulatedLive == populate_result # NoResult /\ ~populate_result[1]

C24_EmbeddedOccupationsArePopulated ==
    (PopulatedLive /\ occupation_infos # NoInfos) =>
        /\ SeqToSet(occupation_infos[1]) \subseteq occupation_table
        /\ last_op # NoOp => last_op[1] = "insert"

\* a code without O*NET data was skipped and the rows of the other one were inserted
C24_Witness ==
    /\ PopulatedLive
    /\ populate_result[2] = 1
    /\ \E c \in OccupationIds :
            /\ c \in {r[1] : r \in interest_matched_jobs}
            /\ c \notin onet_occupation_data
    /\ last_op # NoOp /\ last_op[1] = "insert"
    /\ table # {}

(***************************************************************************)
(* C25: session_scope is a transactional scope.  When the block finishes   *)
(* normally its pending changes are committed; when it raises, the session *)
(* is rolled back, none of the block's uncommitted changes persist and the *)
(* same exception is re-raised; in both cases the session is closed        *)
(* exactly once.  (A commit that itself raises is treated as a raise.)     *)
(***************************************************************************)
C25_TransactionalScope ==
    /\ scope.pc = "closed" =>
        /\ scope.closes = 1
        /\ tx = NoTx
        /\ (scope.block = "returned" /\ scope.propagated = None) =>
                table = scope.view_at_end
        /\ scope.block # "returned" =>
                /\ table = scope.committed_at_end
                /\ scope.propagated = scope.block
        /\ (scope.block = "returned" /\ scope.propagated # None) =>
                table = scope.committed_at_end
    /\ scope.pc # "closed" => scope.closes = 0

\* a block that had committed one change and had another one pending raised
C25_Witness ==
    /\ scope.pc = "closed"
    /\ scope.block \in ExceptionKinds
    /\ scope.committed_at_end # table_pre
    /\ scope.view_at_end # scope.committed_at_end
    /\ table = scope.committed_at_end


(***************************************************************************)
(* C26: ingest_all --dry-run is a faithful preview: a live full run that   *)
(* starts on the database and input a full dry run has just previewed      *)
(* ends without an exception and reports the insert and update counts of   *)
(* sectors, pathways and programs that the dry run reported; and a dry run *)
(* leaves the database as it found it.                                     *)
(***************************************************************************)
C26_DryRunIsFaithfulPreview ==
    /\ (ingest.pc = "idle" /\ ingest.fresh /\ ingest.dry_run) => ingest_db = ingest_db_pre
    /\ (ingest.pc = "idle" /\ ingest.fresh /\ ~ingest.dry_run /\ FullRun(ingest)
            /\ ingest.preview_used # NoPreview)
        => (~ingest.raised /\ ingest.total_stats = ingest.preview_used)

(***************************************************************************)
(* C27: after a run of ingest_all every program that was in the database   *)
(* before the run is still there with the duration_years, total_credits    *)
(* and cost_per_credit it had, whatever the input says about it.           *)
(***************************************************************************)
C27_ReingestKeepsEnrichedFields ==
    (ingest.pc = "idle" /\ ingest.fresh)
        => \A r0 \in ingest_db_pre.programs :
             \E r \in ingest_db.programs :
                /\ r.id = r0.id
                /\ r.duration_years = r0.duration_years
                /\ r.total_credits = r0.total_credits
                /\ r.cost_per_credit = r0.cost_per_credit

\* a live run rewrote the name of an enriched program and its enriched values are still there
C27_Witness ==
    /\ ingest.pc = "idle" /\ ingest.fresh /\ ~ingest.dry_run /\ ~ingest.skip_programs
    /\ ingest.total_stats # NoStatsYet
    /\ \E r0 \in ingest_db_pre.programs : \E r \in ingest_db.programs :
            /\ r.id = r0.id /\ r.name # r0.name
            /\ r.duration_years = EnrichedValues.duration_years
            /\ r.total_credits = EnrichedValues.total_credits
            /\ r.cost_per_credit = EnrichedValues.cost_per_credit

\* every id occurs once in the input
UniqueIds(d) ==
    /\ \A m, n \in 1..Len(d) : d[m].id = d[n].id => m = n
    /\ \A m, n \in 1..Len(d) :
        \A i \in 1..Len(d[m].pathways), j \in 1..Len(d[n].pathways) :
            /\ d[m].pathways[i].id = d[n].pathways[j].id => (m = n /\ i = j)
            /\ \A k \in 1..Len(d[m].pathways[i].programs),
                  l \in 1..Len(d[n].pathways[j].programs) :
                    d[m].pathways[i].programs[k].id = d[n].pathways[j].programs[l].id
                        => (m = n /\ i = j /\ k = l)

SecondLiveRun ==
    /\ ingest.pc = "idle" /\ ingest.fresh /\ ~ingest.raised
    /\ ~ingest.dry_run /\ FullRun(ingest)
    /\ ingest.prev_live_total # NoStatsYet
    /\ UniqueIds(data)

(***************************************************************************)
(* C28: a live full run on an input with unique ids that follows an        *)
(* earlier live full run on the same input leaves the sector, pathway and  *)
(* program rows as it found them, counts nothing as inserted, and counts   *)
(* as updated every record the earlier run inserted or updated.            *)
(***************************************************************************)
C28_LiveIngestionIsIdempotent ==
    SecondLiveRun =>
        LET now == ingest.total_stats[1]
            before == ingest.prev_live_total[1]
        IN  /\ ingest_db = ingest_db_pre
            /\ now.sectors_inserted = 0 /\ now.pathways_inserted = 0
            /\ now.programs_inserted = 0
            /\ now.sectors_updated = before.sectors_inserted + before.sectors_updated
            /\ now.pathways_updated = before.pathways_inserted + before.pathways_updated
            /\ now.programs_updated = before.programs_inserted + before.programs_updated

\* the earlier run inserted a sector, a pathway and a program, the second updated them
C28_Witness ==
    /\ SecondLiveRun
    /\ ingest.prev_live_total[1].sectors_inserted > 0
    /\ ingest.prev_live_total[1].pathways_inserted > 0
    /\ ingest.prev_live_total[1].programs_inserted > 0
    /\ ingest.total_stats[1].programs_updated > 0


\* the rows of interest_matched_jobs that match the code and join onet.occupation_data
MatchedJobs(code) ==
    {r \in assess_db.interest_matched_jobs :
        r.occ_code \in assess_db.occupation_data /\ UPPER(r.fk_riasec_code) = UPPER(code)}

ProfileFound(code) == \E c \in assess_db.riasec_profiles : UPPER(c) = UPPER(code)

(***************************************************************************)
(* C29: process_riasec_code returns an empty occupation_pool and empty     *)
(* top10_jobs when the canonical profile is not found; when it is found    *)
(* the call returns without error, occupation_pool holds the codes of      *)
(* min(15, number of matched jobs) matched jobs in descending interest_sum *)
(* order with no higher-ranked job left out, and top10_jobs is the first   *)
(* min(10, length) entries of the pool in the same order.                  *)
(***************************************************************************)
C29_ProcessRiasecCodeResult ==
    assess_out # NoOutcome =>
        LET out == assess_out[1]
            pool == out.occupation_pool
            matched == MatchedJobs(out.riasec_code)
            sum_of(code) == (CHOOSE r \in matched : r.occ_code = code).interest_sum
        IN  /\ out.raised = None
            /\ IF ~ProfileFound(out.riasec_code)
               THEN pool = <<>> /\ out.top10_jobs = <<>>
               ELSE /\ Len(pool) = (IF Cardinality({r.occ_code : r \in matched}) < 15
                                    THEN Cardinality({r.occ_code : r \in matched}) ELSE 15)
                    /\ \A n \in 1..Len(pool) : \E r \in matched : r.occ_code = pool[n]
                    /\ \A m, n \in 1..Len(pool) : m < n => sum_of(pool[m]) >= sum_of(pool[n])
                    /\ \A r \in matched : (\A n \in 1..Len(pool) : pool[n] # r.occ_code)
                            => \A n \in 1..Len(pool) : sum_of(pool[n]) >= r.interest_sum
                    /\ Len(out.top10_jobs) = (IF Len(pool) < 10 THEN Len(pool) ELSE 10)
                    /\ \A n \in 1..Len(out.top10_jobs) : out.top10_jobs[n].onet_code = pool[n]


RECURSIVE SumOfWeights(_, _)
SumOfWeights(cw, keys) ==
    IF keys = {} THEN 0
    ELSE LET k == CHOOSE x \in keys : TRUE IN cw[k] + SumOfWeights(cw, keys \ {k})

\* the weights sum to 1 up to half a ten-thousandth of rounding per category
SumsToOne(cw) ==
    LET off == SumOfWeights(cw, DOMAIN cw) - ROUND_SCALE
    IN  2 * (IF off < 0 THEN -off ELSE off) <= Cardinality(DOMAIN cw)

NormalizedScoresInUnitInterval(out) ==
    \A n \in 1..Len(out.weighted_skills) :
        /\ out.weighted_skills[n].normalized_score >= 0
        /\ out.weighted_skills[n].normalized_score <= ROUND_SCALE

HasRecognisedRating ==
    \E n \in 1..Len(assess_in.ratings) : assess_in.ratings[n][1] \in DOMAIN assess_db

\* some recognised rating lies above the 20th-percentile data point of its skill
HasRatingAboveDataPoint20 ==
    \E n \in 1..Len(assess_in.ratings) :
        /\ assess_in.ratings[n][1] \in DOMAIN assess_db
        /\ assess_in.ratings[n][2] > assess_db[assess_in.ratings[n][1]].data_point_20

====
